---- MODULE Spec2Model ----
(***************************************************************************)
(* A model of the symbolic algebra of SymbolicMath.go: the scalar          *)
(* expressions K and Polynomial, the dimension checks of smErrors, and the *)
(* VariableMatrix container.  A call that panics is modelled as an outcome *)
(* of kind "panic" that carries the error; a call that returns as an       *)
(* outcome of kind "return" that carries the value.  float64 numbers are   *)
(* modelled by small integers, on which float64 arithmetic is exact.       *)
(***************************************************************************)
EXTENDS Integers, Sequences, FiniteSets, TLC

VARIABLES
    p,         \* the Polynomial the caller holds (receiver of the next call)
    p0,        \* the Polynomial the caller started from
    added,     \* sum of the constants added by the Plus calls that returned
    onlyConst, \* every Plus call that returned had a constant operand
    nCalls,    \* number of Polynomial.Plus calls made so far
    c,         \* the constant K the caller holds
    last,      \* the last scalar call: operation, receiver, operand, outcome
    left,      \* left operand of a dimension check
    right,     \* right operand of a dimension check
    dimLast,   \* the last dimension check: operation and the error returned
    vm,        \* the VariableMatrix the caller holds
    vv,        \* the VariableVector the caller holds
    cLast      \* the last container call: operation, operand, outcome

vars == <<p, p0, added, onlyConst, nCalls, c, last, left, right, dimLast, vm, vv, cLast>>

polyVars == <<p, p0, added, onlyConst, nCalls>>
dimVars == <<left, right, dimLast>>
containerVars == <<vm, vv, cLast>>

----------------------------------------------------------------------------
(* Bounds of the model *)

MaxMonomials == 2   \* longest Polynomial literal the caller starts from
MaxCalls == 2       \* longest chain of Polynomial.Plus calls
MaxConst == 1       \* constants range over 0 .. MaxConst
MaxID == 2          \* variable identities range over 1 .. MaxID
MaxDim == 2         \* row and column counts range over 1 .. MaxDim, and VecLen
MaxRows == 3        \* most rows of a matrix handed to Check
MaxCols == 2        \* most columns of a matrix row, most elements of a vector

\* The vector length the tests of the dimension checks use
VecLen == 20

Consts == 0 .. MaxConst

----------------------------------------------------------------------------
(* Errors and outcomes *)

Nil == [name |-> "nil"]

IsNil(err) == err.name = "nil"

Return(v) == [kind |-> "return", val |-> v, err |-> Nil]

Panic(e) == [kind |-> "panic", val |-> Nil, err |-> e]

\* Go's runtime error for s[i] with i outside 0 .. len(s)-1
IndexOutOfRange(i, n) == [name |-> "index out of range", index |-> i, len |-> n]

UnsupportedInputError(fn, input) ==
    [name |-> "UnsupportedInputError", FunctionName |-> fn, Input |-> input]

----------------------------------------------------------------------------
(* Values: variables, monomials, polynomials, operands *)

\* A Variable: its identity and its bounds
Variable(id, lo, up) == [ID |-> id, Lower |-> lo, Upper |-> up]

\* Variable.Check: a variable whose lower bound exceeds its upper bound is
\* not well defined
VariableCheck(v) ==
    IF v.Lower > v.Upper
    THEN [name |-> "variable bounds", ID |-> v.ID]
    ELSE Nil

Monomial(coef, factors, exps) ==
    [Coefficient |-> coef, VariableFactors |-> factors, Exponents |-> exps]

\* Monomial.Check: the exponents are paired 1:1 with the variable factors
MonomialCheck(m) ==
    IF Len(m.VariableFactors) # Len(m.Exponents)
    THEN [name |-> "monomial arity", nVars |-> Len(m.VariableFactors),
          nExps |-> Len(m.Exponents)]
    ELSE Nil

\* Monomial.IsConstant: a monomial with no variable factor
MonomialIsConstant(m) == Len(m.VariableFactors) = 0

\* Monomial.IsVariable: the monomial is exactly v to the power 1
MonomialIsVariable(m, v) ==
    /\ Len(m.VariableFactors) = 1
    /\ Len(m.Exponents) = 1
    /\ m.VariableFactors[1].ID = v.ID
    /\ m.Exponents[1] = 1

\* K.ToMonomial
KToMonomial(k) == Monomial(k, <<>>, <<>>)

\* Variable.ToMonomial
VariableToMonomial(v) == Monomial(1, <<v>>, <<1>>)

Polynomial(ms) == [Monomials |-> ms]

\* Operands of dynamic type: what a caller passes as interface{}
Float64(n) == [type |-> "float64", num |-> n]
K(n) == [type |-> "K", num |-> n]
IntOperand(n) == [type |-> "int", num |-> n]
VarOperand(v) == [type |-> "Variable", var |-> v]
PolyOperand(q) == [type |-> "Polynomial", poly |-> q]
StringOperand == [type |-> "string", str |-> "x"]
VectorOperand(v) == [type |-> "VariableVector", Elements |-> v.Elements]
MatrixOperand(m) == [type |-> "VariableMatrix", rows |-> m]
MonoOperand(m) == [type |-> "Monomial", mono |-> m]
\* A KVector is a slice of K, a mat.VecDense holds float64 values
KVectorOperand(ks) == [type |-> "KVector", Elements |-> ks]
VecDenseOperand(fs) == [type |-> "mat.VecDense", Elements |-> fs]
\* VecDenseToKVector, KVector(rhsConverted): every float64 becomes a K
VecDenseToKVector(e) ==
    KVectorOperand([ii \in 1 .. Len(e.Elements) |-> K(e.Elements[ii].num)])
\* An expansion that always has a single entry
KVectorOfOne(k, n) == KVectorOperand(<<K(k)>>)
\* The vector of n entries k
KVectorOf(k, n) == KVectorOperand([ii \in 1 .. n |-> K(k)])

----------------------------------------------------------------------------
(* smErrors: dimension checks.  A MatrixLike is anything with Dims(); it is *)
(* modelled by a record with a field dims = <<rows, columns>>.             *)

MatrixLike(type, rows, cols) == [type |-> type, dims |-> <<rows, cols>>]

\* e.Dims(), by the dynamic type of e: K.Dims, Variable.Dims and
\* Polynomial.Dims are (1, 1), VariableVector.Dims is (Len, 1),
\* VariableMatrix.Dims (on a matrix that passes Check) is (rows, columns of
\* row 0); any other MatrixLike carries its dimensions
Dims(e) ==
    IF e.type \in {"K", "Variable", "Polynomial"} THEN <<1, 1>>
    ELSE IF e.type \in {"VariableVector", "KVector", "mat.VecDense"}
        THEN <<Len(e.Elements), 1>>
    ELSE IF e.type = "VariableMatrix" THEN <<Len(e.rows), Len(e.rows[1])>>
    ELSE e.dims

\* smErrors.IsScalarExpression: a MatrixLike of dimensions (1, 1)
SmIsScalarExpression(e) == Dims(e)[1] = 1 /\ Dims(e)[2] = 1

DimensionError(op, a1, a2) ==
    [name |-> "DimensionError", Operation |-> op, Arg1 |-> a1, Arg2 |-> a2]

\* A variant that compares the row counts only
CheckDimensionsInAdditionRowsOnly(l, r) ==
    LET dimsAreMatched0 == Dims(l)[1] = Dims(r)[1]
        dimsAreMatched1 == dimsAreMatched0 \/ SmIsScalarExpression(l)
        dimsAreMatched == dimsAreMatched1 \/ SmIsScalarExpression(r)
    IN  IF ~dimsAreMatched
        THEN DimensionError("Plus", l, r)
        ELSE Nil

CheckDimensionsInAddition(l, r) ==
    LET dimsAreMatched0 == (Dims(l)[1] = Dims(r)[1]) /\ (Dims(l)[2] = Dims(r)[2])
        dimsAreMatched1 == dimsAreMatched0 \/ SmIsScalarExpression(l)
        dimsAreMatched == dimsAreMatched1 \/ SmIsScalarExpression(r)
    IN  IF ~dimsAreMatched
        THEN DimensionError("Plus", l, r)
        ELSE Nil

\* A variant that compares the column counts of both operands
CheckDimensionsInMultiplicationColumns(l, r) ==
    LET dimsMatch == Dims(l)[2] = Dims(r)[2]
        leftIsScalar == SmIsScalarExpression(l)
        rightIsScalar == SmIsScalarExpression(r)
        multiplicationIsAllowed == dimsMatch \/ leftIsScalar \/ rightIsScalar
    IN  IF ~multiplicationIsAllowed
        THEN DimensionError("Multiply", l, r)
        ELSE Nil

CheckDimensionsInMultiplication(l, r) ==
    LET dimsMatch == Dims(l)[2] = Dims(r)[1]
        leftIsScalar == SmIsScalarExpression(l)
        rightIsScalar == SmIsScalarExpression(r)
        multiplicationIsAllowed == dimsMatch \/ leftIsScalar \/ rightIsScalar
    IN  IF ~multiplicationIsAllowed
        THEN DimensionError("Multiply", l, r)
        ELSE Nil

----------------------------------------------------------------------------
(* symbolic: recognising and converting operands *)

IsScalarExpression(e) == e.type \in {"float64", "K", "Variable"}

IsVectorExpression(e) == e.type \in {"VariableVector", "KVector", "mat.VecDense"}

IsMatrixExpression(e) == e.type \in {"VariableMatrix"}

IsExpression(e) ==
    IsScalarExpression(e) \/ IsVectorExpression(e) \/ IsMatrixExpression(e)

\* ToScalarExpression: a float64 becomes the constant of the same value
ToScalarExpression(e) == IF e.type = "float64" THEN K(e.num) ELSE e

\* ToExpression, on an operand IsExpression accepts
ToExpression(e) == IF IsScalarExpression(e) THEN ToScalarExpression(e) ELSE e

----------------------------------------------------------------------------
(* Polynomial *)

\* Go's "for ii, monomial := range p.Monomials": the first index, counted
\* from 0, whose monomial satisfies Test, or -1
FirstIndex(ms, Test(_)) ==
    IF \E ii \in 1 .. Len(ms) : Test(ms[ii])
    THEN (CHOOSE ii \in 1 .. Len(ms) :
            /\ Test(ms[ii])
            /\ \A jj \in 1 .. (ii - 1) : ~Test(ms[jj])) - 1
    ELSE 0 - 1

\* Polynomial.Check: the first error of a monomial, nil when there is none
PolynomialCheck(q) ==
    LET Bad(m) == ~IsNil(MonomialCheck(m))
        ii == FirstIndex(q.Monomials, Bad)
    IN  IF ii # 0 - 1 THEN MonomialCheck(q.Monomials[ii + 1]) ELSE Nil

\* Polynomial.ConstantMonomialIndex, on a polynomial that passes Check
ConstantMonomialIndex(q) == FirstIndex(q.Monomials, MonomialIsConstant)

\* Polynomial.VariableMonomialIndex, on a polynomial and variable that pass Check
VariableMonomialIndex(q, v) ==
    LET IsV(m) == MonomialIsVariable(m, v)
    IN  FirstIndex(q.Monomials, IsV)

\* Polynomial.Constant
PolynomialConstant(q) ==
    IF ~IsNil(PolynomialCheck(q)) THEN Panic(PolynomialCheck(q))
    ELSE LET constantIndex == ConstantMonomialIndex(q)
         IN  IF constantIndex = 0 - 1
             THEN Return(0)
             ELSE Return(q.Monomials[constantIndex + 1].Coefficient)

\* The case K of Polynomial.Plus
PolynomialPlusK(q, k) ==
    LET constantIndex == ConstantMonomialIndex(q)
    IN  IF constantIndex # 0 - 1
        THEN Return(Polynomial(Append(q.Monomials, KToMonomial(k))))
        ELSE \* pCopy.Monomials[constantIndex] with constantIndex = -1
             Panic(IndexOutOfRange(constantIndex, Len(q.Monomials)))

\* The case Variable of Polynomial.Plus: no branch returns, and the call
\* ends in the panic that follows the switch
PolynomialPlusVariable(q, e) ==
    IF ~IsNil(VariableCheck(e.var)) THEN Panic(VariableCheck(e.var))
    ELSE LET variableIndex == VariableMonomialIndex(q, e.var)
         IN  IF variableIndex # 0 - 1
             THEN Panic([name |-> "Unexpected type", op |-> "Plus", Input |-> e])
             ELSE Panic(IndexOutOfRange(variableIndex, Len(q.Monomials)))

\* Polynomial.Plus
PolynomialPlus(q, e) ==
    LET err == PolynomialCheck(q)
        dErr == IF IsExpression(e)
                THEN CheckDimensionsInAddition(PolyOperand(q), ToExpression(e))
                ELSE Nil
    IN  IF ~IsNil(err) THEN Panic(err)
        ELSE IF ~IsNil(dErr) THEN Panic(dErr)
        ELSE IF e.type \in {"float64", "K"} THEN PolynomialPlusK(q, e.num)
        ELSE IF e.type = "Variable" THEN PolynomialPlusVariable(q, e)
        ELSE Panic([name |-> "Unexpected type", op |-> "Plus", Input |-> e])

\* Position (from 1) of the factor of m with the identity of v, or 0
FactorIndex(m, v) ==
    IF \E ii \in 1 .. Len(m.VariableFactors) : m.VariableFactors[ii].ID = v.ID
    THEN CHOOSE ii \in 1 .. Len(m.VariableFactors) :
            /\ m.VariableFactors[ii].ID = v.ID
            /\ \A jj \in 1 .. (ii - 1) : m.VariableFactors[jj].ID # v.ID
    ELSE 0

\* m times v to the power n: the exponent of a shared variable grows, a new
\* variable is appended
MonomialTimesPower(m, v, n) ==
    LET ii == FactorIndex(m, v)
    IN  IF ii = 0
        THEN Monomial(m.Coefficient, Append(m.VariableFactors, v), Append(m.Exponents, n))
        ELSE Monomial(m.Coefficient, m.VariableFactors,
                      [m.Exponents EXCEPT ![ii] = @ + n])

RECURSIVE MonomialTimesFactors(_, _, _)
\* m times the first n factors of the monomial r
MonomialTimesFactors(m, r, n) ==
    IF n = 0 THEN m
    ELSE MonomialTimesPower(MonomialTimesFactors(m, r, n - 1),
                            r.VariableFactors[n], r.Exponents[n])

\* Monomial.Multiply: the coefficients multiply, the exponents of shared
\* variables add, new variables are appended
MonomialMultiply(m, e) ==
    IF ~IsNil(MonomialCheck(m)) THEN Panic(MonomialCheck(m))
    ELSE IF e.type \in {"float64", "K"}
        THEN Return(Monomial(m.Coefficient * e.num, m.VariableFactors, m.Exponents))
    ELSE IF e.type = "Variable"
        THEN IF ~IsNil(VariableCheck(e.var)) THEN Panic(VariableCheck(e.var))
             ELSE Return(MonomialTimesPower(m, e.var, 1))
    ELSE IF e.type = "Monomial"
        THEN IF ~IsNil(MonomialCheck(e.mono)) THEN Panic(MonomialCheck(e.mono))
             ELSE LET prod == MonomialTimesFactors(m, e.mono, Len(e.mono.VariableFactors))
                  IN  Return(Monomial(m.Coefficient * e.mono.Coefficient,
                                      prod.VariableFactors, prod.Exponents))
    ELSE Panic(UnsupportedInputError("Monomial.Multiply", e))

\* The loop of Polynomial.Multiply over pCopy := p.  pCopy.Monomials is the
\* slice of p, so every assignment pCopy.Monomials[ii] = ... is an
\* assignment to the caller's p.  The result is the outcome of the call
\* and the monomials the caller's p holds when the call ends.
PolynomialMultiplyLoop(q, e) ==
    LET n == Len(q.Monomials)
        products == [ii \in 1 .. n |-> MonomialMultiply(q.Monomials[ii], e)]
        failed == {ii \in 1 .. n : products[ii].kind = "panic"}
        stop == IF failed = {} THEN n + 1
                ELSE CHOOSE ii \in failed : \A jj \in failed : ii <= jj
        written == [ii \in 1 .. n |->
                        IF ii < stop THEN products[ii].val ELSE q.Monomials[ii]]
    IN  IF stop = n + 1
        THEN [out |-> Return(Polynomial(written)), recv |-> Polynomial(written)]
        ELSE [out |-> Panic(products[stop].err), recv |-> Polynomial(written)]

\* A variant whose loop stops before the last monomial
PolynomialMultiplySkipsLast(q, e) ==
    LET n == Len(q.Monomials)
        r == PolynomialMultiplyLoop(q, e).out
    IN  IF IsNil(PolynomialCheck(q)) /\ e.type \in {"float64", "K"} /\ n > 0
        THEN Return(Polynomial([ii \in 1 .. n |->
                IF ii < n THEN r.val.Monomials[ii] ELSE q.Monomials[ii]]))
        ELSE Panic([name |-> "Unexpected type", op |-> "Multiply", Input |-> e])

\* Polynomial.Multiply and what it leaves in the receiver
PolynomialMultiplyCall(q, e) ==
    LET err == PolynomialCheck(q)
        dErr == IF IsExpression(e)
                THEN CheckDimensionsInMultiplication(PolyOperand(q), ToExpression(e))
                ELSE Nil
    IN  IF ~IsNil(err) THEN [out |-> Panic(err), recv |-> q]
        ELSE IF ~IsNil(dErr) THEN [out |-> Panic(dErr), recv |-> q]
        ELSE IF e.type \in {"float64", "K", "Variable", "Monomial"}
            THEN PolynomialMultiplyLoop(q, e)
        ELSE [out |-> Panic([name |-> "Unexpected type", op |-> "Multiply", Input |-> e]),
              recv |-> q]

\* Polynomial.Multiply: the outcome of the call
PolynomialMultiply(q, e) == PolynomialMultiplyCall(q, e).out

\* The caller's p after p.Multiply(e)
PolynomialMultiplyReceiver(q, e) == PolynomialMultiplyCall(q, e).recv

\* The caller's p after p.Plus(e): the case K appends to pCopy.Monomials
\* (the caller's slice keeps its length) or panics on the read of
\* pCopy.Monomials[-1] before its assignment, and so does the case Variable
PolynomialPlusReceiver(q, e) == q

ScalarConstraint(lhs, rhs, sense) ==
    [type |-> "ScalarConstraint", LeftHandSide |-> lhs, RightHandSide |-> rhs,
     Sense |-> sense]

\* The error of ToScalarExpression, nil for float64, K and Variable
ToScalarExpressionError(e) ==
    IF IsScalarExpression(e) THEN Nil
    ELSE [name |-> "not recognized as a ScalarExpression", type |-> e.type]

\* The value of ToScalarExpression: K(1.0) comes with the error
ToScalarExpressionValue(e) ==
    IF IsScalarExpression(e) THEN ToScalarExpression(e) ELSE K(1)

\* Polynomial.Comparison
PolynomialComparison(q, e, sense) ==
    IF ~IsNil(PolynomialCheck(q)) THEN Panic(PolynomialCheck(q))
    ELSE IF ~IsNil(ToScalarExpressionError(e)) THEN Panic(ToScalarExpressionError(e))
    ELSE Return(ScalarConstraint(PolyOperand(q), ToScalarExpressionValue(e), sense))

----------------------------------------------------------------------------
(* VariableVector and VariableMatrix *)

\* Go's runtime error for a method call on a nil interface value
NilDereference == [name |-> "nil pointer dereference"]

\* VariableVector.Check: the first element that fails its Check
VariableVectorCheck(v) ==
    LET Bad(x) == ~IsNil(VariableCheck(x))
        ii == FirstIndex(v.Elements, Bad)
    IN  IF ii # 0 - 1
        THEN [name |-> "element has an issue", index |-> ii,
              err |-> VariableCheck(v.Elements[ii + 1])]
        ELSE Nil

EmptyMatrixError(m) == [name |-> "EmptyMatrixError", Expression |-> m]

MatrixColumnMismatchError(expected, actual, row) ==
    [name |-> "MatrixColumnMismatchError", ExpectedNColumns |-> expected,
     ActualNColumns |-> actual, Row |-> row]

\* The entries (ii, jj) of m, counted from 0, that fail Variable.Check
BadEntries(m) ==
    {ij \in UNION {{<<ii, jj>> : jj \in 0 .. (Len(m[ii + 1]) - 1)} :
                        ii \in 0 .. (Len(m) - 1)} :
        ~IsNil(VariableCheck(m[ij[1] + 1][ij[2] + 1]))}

\* The first pair of S in row-major order
FirstRowMajor(S) ==
    CHOOSE ij \in S :
        \A kl \in S : ij[1] < kl[1] \/ (ij[1] = kl[1] /\ ij[2] <= kl[2])

\* A variant that tests the variables before the row lengths
VariableMatrixCheckElementsFirst(m) ==
    IF Len(m) = 0 THEN EmptyMatrixError(m)
    ELSE LET numCols == Len(m[1])
             Ragged(row) == Len(row) # numCols
             ii == FirstIndex(m, Ragged)
         IN  IF BadEntries(m) # {}
             THEN LET ij == FirstRowMajor(BadEntries(m))
                  IN  [name |-> "error in entry", ii |-> ij[1], jj |-> ij[2],
                       err |-> VariableCheck(m[ij[1] + 1][ij[2] + 1])]
             ELSE IF ii # 0 - 1
             THEN MatrixColumnMismatchError(numCols, Len(m[ii + 1]), ii)
             ELSE Nil

\* A variant that reports the last invalid entry
VariableMatrixCheckLastEntry(m) ==
    IF Len(m) = 0 THEN EmptyMatrixError(m)
    ELSE LET numCols == Len(m[1])
             Ragged(row) == Len(row) # numCols
             ii == FirstIndex(m, Ragged)
         IN  IF ii # 0 - 1
             THEN MatrixColumnMismatchError(numCols, Len(m[ii + 1]), ii)
             ELSE IF BadEntries(m) # {}
             THEN LET ij == CHOOSE ab \in BadEntries(m) :
                                \A kl \in BadEntries(m) :
                                    kl[1] < ab[1] \/ (kl[1] = ab[1] /\ kl[2] <= ab[2])
                  IN  [name |-> "error in entry", ii |-> ij[1], jj |-> ij[2],
                       err |-> VariableCheck(m[ij[1] + 1][ij[2] + 1])]
             ELSE Nil

\* VariableMatrix.Check
VariableMatrixCheck(m) ==
    IF Len(m) = 0 THEN EmptyMatrixError(m)
    ELSE LET numCols == Len(m[1])
             Ragged(row) == Len(row) # numCols
             ii == FirstIndex(m, Ragged)
         IN  IF ii # 0 - 1
             THEN MatrixColumnMismatchError(numCols, Len(m[ii + 1]), ii)
             ELSE IF BadEntries(m) # {}
             THEN LET ij == FirstRowMajor(BadEntries(m))
                  IN  [name |-> "error in entry", ii |-> ij[1], jj |-> ij[2],
                       err |-> VariableCheck(m[ij[1] + 1][ij[2] + 1])]
             ELSE Nil

\* e.Check(), by the dynamic type of the expression e
ExpressionCheck(e) ==
    IF e.type = "K" THEN Nil
    ELSE IF e.type = "Variable" THEN VariableCheck(e.var)
    ELSE IF e.type = "VariableVector" THEN VariableVectorCheck(e)
    ELSE IF e.type = "VariableMatrix" THEN VariableMatrixCheck(e.rows)
    ELSE Nil

SecondArgumentError(fn, err) ==
    [name |-> "error in second argument", FunctionName |-> fn, err |-> err]

\* smErrors.CheckDimensionsInComparison
CheckDimensionsInComparison(l, r, sense) ==
    LET dimsAreMatched0 == (Dims(l)[1] = Dims(r)[1]) /\ (Dims(l)[2] = Dims(r)[2])
        dimsAreMatched == dimsAreMatched0 \/ SmIsScalarExpression(l)
                            \/ SmIsScalarExpression(r)
    IN  IF ~dimsAreMatched
        THEN DimensionError("Comparison", l, r)
        ELSE Nil

\* Variable.Plus of a constant: the polynomial v + k
VariablePlusK(v, k) == Polynomial(<<VariableToMonomial(v), KToMonomial(k)>>)

\* Variable.Multiply by a constant: the monomial k * v
VariableMultiplyK(v, k) == Monomial(k, <<v>>, <<1>>)

\* The input processing of VariableMatrix.Plus, Multiply and Comparison on
\* an operand e that IsExpression accepts: e.(Expression) is nil for a
\* float64, e.Check() is called, then the dimensions are checked
\* (dErr is the result of the dimension check)
SecondArgumentProcessing(fn, e, dErr) ==
    IF e.type = "float64" THEN NilDereference
    ELSE IF ~IsNil(ExpressionCheck(e)) THEN SecondArgumentError(fn, ExpressionCheck(e))
    ELSE dErr

\* VariableMatrix.Plus.  The case K builds the matrix of polynomials
\* pmOut and does not return it: the call ends in the panic after the switch.
VariableMatrixPlus(m, e) ==
    LET err == VariableMatrixCheck(m)
        eErr == IF IsExpression(e)
                THEN SecondArgumentProcessing("VariableMatrix.Plus", e,
                        CheckDimensionsInAddition(MatrixOperand(m), e))
                ELSE Nil
        pmOut == IF e.type = "K"
                 THEN [ii \in 1 .. Len(m) |->
                        [jj \in 1 .. Len(m[ii]) |-> VariablePlusK(m[ii][jj], e.num)]]
                 ELSE <<>>
    IN  IF ~IsNil(err) THEN Panic(err)
        ELSE IF ~IsNil(eErr) THEN Panic(eErr)
        ELSE Panic(UnsupportedInputError("VariableMatrix.Plus", e))

\* A variant that does not validate the right operand
VariableMatrixMultiplyUnchecked(m, e) ==
    LET err == VariableMatrixCheck(m)
        eErr == IF IsExpression(e) /\ IsNil(ExpressionCheck(e))
                THEN SecondArgumentProcessing("VariableMatrix.Multiply", e,
                        CheckDimensionsInMultiplication(MatrixOperand(m), e))
                ELSE Nil
    IN  IF ~IsNil(err) THEN Panic(err)
        ELSE IF ~IsNil(eErr) THEN Panic(eErr)
        ELSE Panic(UnsupportedInputError("VariableMatrix.Multiply", e))

\* VariableMatrix.Multiply.  The case K builds the matrix of monomials
\* mmOut and does not return it: the call ends in the panic after the switch.
VariableMatrixMultiply(m, e) ==
    LET err == VariableMatrixCheck(m)
        eErr == IF IsExpression(e)
                THEN SecondArgumentProcessing("VariableMatrix.Multiply", e,
                        CheckDimensionsInMultiplication(MatrixOperand(m), e))
                ELSE Nil
        mmOut == IF e.type = "K"
                 THEN [ii \in 1 .. Len(m) |->
                        [jj \in 1 .. Len(m[ii]) |-> VariableMultiplyK(m[ii][jj], e.num)]]
                 ELSE <<>>
    IN  IF ~IsNil(err) THEN Panic(err)
        ELSE IF ~IsNil(eErr) THEN Panic(eErr)
        ELSE Panic(UnsupportedInputError("VariableMatrix.Multiply", e))

\* OnesMatrix(rows, cols) scaled by k and converted by DenseToKMatrix; the
\* dense library refuses a matrix with a zero dimension
ScaledOnesKMatrix(k, rows, cols) ==
    IF rows = 0 \/ cols = 0
    THEN Panic([name |-> "mat: zero length in matrix dimension"])
    ELSE Return([type |-> "KMatrix",
                 rows |-> [ii \in 1 .. rows |-> [jj \in 1 .. cols |-> K(k)]]])

MatrixConstraint(lhs, rhs, sense) ==
    [type |-> "MatrixConstraint", LeftHandSide |-> lhs, RightHandSide |-> rhs,
     Sense |-> sense]

\* VariableMatrix.Comparison
VariableMatrixComparison(m, e, sense) ==
    LET err == VariableMatrixCheck(m)
        eErr == IF IsExpression(e)
                THEN SecondArgumentProcessing("VariableMatrix.Comparison", e,
                        CheckDimensionsInComparison(MatrixOperand(m), e, sense))
                ELSE Nil
    IN  IF ~IsNil(err) THEN Panic(err)
        ELSE IF ~IsNil(eErr) THEN Panic(eErr)
        ELSE IF e.type = "K"
        THEN LET rhs == ScaledOnesKMatrix(e.num, Dims(MatrixOperand(m))[1],
                                          Dims(MatrixOperand(m))[2])
             IN  IF rhs.kind = "panic" THEN rhs
                 ELSE Return(MatrixConstraint(MatrixOperand(m), rhs.val, sense))
        ELSE Panic(UnsupportedInputError("VariableMatrix.Comparison", e))

----------------------------------------------------------------------------
(* VariableVector: Plus, Multiply, Comparison *)

VectorConstraint(lhs, rhs, sense) ==
    [type |-> "VectorConstraint", LeftHandSide |-> lhs, RightHandSide |-> rhs,
     Sense |-> sense]

\* VariableVector.Plus: the switch has only its default case
VariableVectorPlus(v, e) ==
    IF ~IsNil(VariableVectorCheck(v)) THEN Panic(VariableVectorCheck(v))
    ELSE Panic([name |-> "Unrecognized expression type",
                op |-> "VariableVector.Plus", Input |-> e])

\* VariableVector.Multiply, on an operand whose Dims() returns: the switch
\* has only its default case
VariableVectorMultiply(v, e) ==
    LET err == VariableVectorCheck(v)
        dErr == IF IsExpression(e)
                THEN CheckDimensionsInMultiplication(VectorOperand(v), ToExpression(e))
                ELSE Nil
    IN  IF ~IsNil(err) THEN Panic(err)
        ELSE IF ~IsNil(dErr) THEN Panic(dErr)
        ELSE Panic([name |-> "unexpected type",
                    op |-> "VariableVector.Multiply", Input |-> e])

\* The error of a comparison of vectors of different lengths
SameDimensionError(sense, n1, n2) ==
    [name |-> "must have the same dimension", sense |-> sense,
     dim1 |-> n1, dim2 |-> n2]

\* VariableVector.Comparison: neither operand is checked
VariableVectorComparison(v, e, sense) ==
    IF e.type = "mat.VecDense"
    THEN \* KVector(rhsConverted), then the case KVector
         IF Len(v.Elements) # Len(e.Elements)
         THEN Panic(SameDimensionError(sense, Len(v.Elements), Len(e.Elements)))
         ELSE Return(VectorConstraint(v, VecDenseToKVector(e), sense))
    ELSE IF e.type \in {"KVector", "VariableVector"}
    THEN IF Len(v.Elements) # Len(e.Elements)
         THEN Panic(SameDimensionError(sense, Len(v.Elements), Len(e.Elements)))
         ELSE Return(VectorConstraint(v, e, sense))
    ELSE Panic([name |-> "not implemented", op |-> "VariableVector.Comparison",
                type |-> e.type])

----------------------------------------------------------------------------
(* K *)

\* The Check of a right operand that IsExpression accepts, nil for any other
RightCheck(e) == IF IsExpression(e) THEN ExpressionCheck(e) ELSE Nil

\* K.Plus (the case Monomial, whose Monomial.Plus is outside the model, is
\* left out)
KPlus(k, e) ==
    IF ~IsNil(RightCheck(e)) THEN Panic(SecondArgumentError("K.Plus", RightCheck(e)))
    ELSE IF e.type \in {"int", "float64", "K"} THEN Return(K(k + e.num))
    ELSE IF e.type = "Variable" THEN Return(VariablePlusK(e.var, k))
    ELSE IF e.type = "Polynomial" THEN PolynomialPlus(e.poly, K(k))
    ELSE IF e.type \in {"KVector", "mat.VecDense"}
        THEN Return(KVectorOperand(
                [ii \in 1 .. Len(e.Elements) |-> K(e.Elements[ii].num + k)]))
    ELSE IF e.type = "VariableVector" THEN VariableVectorPlus(e, K(k))
    ELSE IF e.type = "VariableMatrix" THEN VariableMatrixPlus(e.rows, K(k))
    ELSE Panic(UnsupportedInputError("K.Plus", e))

\* K.Multiply: the switch has the scalar cases only
KMultiply(k, e) ==
    IF ~IsNil(RightCheck(e)) THEN Panic(RightCheck(e))
    ELSE IF e.type \in {"int", "float64", "K"} THEN Return(K(k * e.num))
    ELSE IF e.type = "Variable" THEN Return(VariableMultiplyK(e.var, k))
    ELSE IF e.type = "Monomial" THEN MonomialMultiply(e.mono, K(k))
    ELSE IF e.type = "Polynomial" THEN PolynomialMultiply(e.poly, K(k))
    ELSE Panic(UnsupportedInputError("K.Multiply", e))

\* K.Comparison
KComparison(k, e, sense) ==
    IF ~IsNil(RightCheck(e)) THEN Panic(RightCheck(e))
    ELSE IF e.type \in {"float64", "K", "Variable", "Monomial", "Polynomial"}
        THEN Return(ScalarConstraint(K(k), ToScalarExpressionValue(e), sense))
    ELSE IF e.type = "mat.VecDense"
        THEN Return(VectorConstraint(KVectorOf(k, Len(e.Elements)),
                                     VecDenseToKVector(e), sense))
    ELSE IF e.type = "KVector"
        THEN Return(VectorConstraint(KVectorOf(k, Len(e.Elements)), e, sense))
    ELSE IF e.type = "VariableVector"
        THEN Return(VectorConstraint(KVectorOf(k, Len(e.Elements)), e, sense))
    ELSE Panic(UnsupportedInputError("K.Comparison", e))

----------------------------------------------------------------------------
(* The polynomial algebra: a caller that holds a Polynomial p and calls    *)
(* Check, Constant and Plus on it, keeping the result of a Plus that       *)
(* returns as its new p.  A caller recovers from a panic and goes on.      *)

NoCall == [op |-> "none", recv |-> Nil, arg |-> Nil, out |-> Return(Nil)]

Call(op, recv, arg, out) == [op |-> op, recv |-> recv, arg |-> arg, out |-> out]

\* Well-defined variables with identities 1 .. MaxID
Variables == {Variable(id, 0, 1) : id \in 1 .. MaxID}

X1 == Variable(1, 0, 1)

\* A variable whose bounds are inverted: it fails Check
BadVariable == Variable(2, 1, 0)

Senses == {"<=", ">=", "=="}

NoCCall == [op |-> "none", recv |-> Nil, arg |-> Nil, sense |-> "", out |-> Return(Nil)]

CCall(op, recv, arg, sense, out) ==
    [op |-> op, recv |-> recv, arg |-> arg, sense |-> sense, out |-> out]

\* The monomials a caller's literal is made of: constants, single
\* variables, and a monomial with one exponent too many
InitMonomials ==
    {KToMonomial(k) : k \in 1 .. MaxConst}
        \cup {VariableToMonomial(v) : v \in Variables}
        \cup {Monomial(1, <<X1>>, <<1, 2>>)}

SeqsUpTo(S, n) == UNION {[1 .. k -> S] : k \in 0 .. n}

InitPolynomials == {Polynomial(ms) : ms \in SeqsUpTo(InitMonomials, MaxMonomials)}

ConstOperands == {Float64(k) : k \in Consts} \cup {K(k) : k \in Consts}

PlusOperands ==
    ConstOperands \cup {VarOperand(v) : v \in Variables} \cup {StringOperand}

InitPoly ==
    /\ p \in InitPolynomials
    /\ p0 = p
    /\ added = 0
    /\ onlyConst = TRUE
    /\ nCalls = 0

IdlePoly ==
    /\ p = Polynomial(<<>>)
    /\ p0 = p
    /\ added = 0
    /\ onlyConst = TRUE
    /\ nCalls = 0

IdleK == c = 0

IdleDims ==
    /\ left = MatrixLike("K", 1, 1)
    /\ right = MatrixLike("K", 1, 1)
    /\ dimLast = [op |-> "none", err |-> Nil]

IdleContainers ==
    /\ vm = <<>>
    /\ vv = [Elements |-> <<>>]
    /\ cLast = NoCall

Init ==
    /\ InitPoly
    /\ last = NoCall
    /\ IdleK
    /\ IdleDims
    /\ IdleContainers

\* q := p.Plus(e); p = q when the call returns
CallPolynomialPlus ==
    \E e \in PlusOperands :
        LET out == PolynomialPlus(p, e)
        IN  /\ nCalls < MaxCalls
            /\ nCalls' = nCalls + 1
            /\ last' = Call("Polynomial.Plus", p, e, out)
            /\ IF out.kind = "return"
               THEN /\ p' = out.val
                    /\ added' = IF e \in ConstOperands THEN added + e.num ELSE added
                    /\ onlyConst' = (onlyConst /\ e \in ConstOperands)
               ELSE UNCHANGED <<p, added, onlyConst>>
            /\ UNCHANGED <<p0, c, dimVars, containerVars>>

\* p.Check()
CallPolynomialCheck ==
    /\ last' = Call("Polynomial.Check", p, Nil, Return(PolynomialCheck(p)))
    /\ UNCHANGED <<polyVars, c, dimVars, containerVars>>

\* p.Constant()
CallPolynomialConstant ==
    /\ last' = Call("Polynomial.Constant", p, Nil, PolynomialConstant(p))
    /\ UNCHANGED <<polyVars, c, dimVars, containerVars>>

Next ==
    \/ CallPolynomialPlus
    \/ CallPolynomialCheck
    \/ CallPolynomialConstant

Spec == Init /\ [][Next]_vars

----------------------------------------------------------------------------
(* The constants: a caller that holds a constant c and a polynomial p and  *)
(* makes one call of c.Plus, c.Multiply or c.Comparison.                   *)

InitK ==
    /\ c \in Consts
    /\ InitPoly
    /\ last = NoCall
    /\ IdleDims
    /\ IdleContainers

KOperands == ConstOperands \cup {IntOperand(k) : k \in Consts} \cup {StringOperand}

\* Scalar, vector and matrix right operands, valid and invalid
ScalarOperands ==
    ConstOperands \cup {VarOperand(X1), VarOperand(BadVariable)}

MonomialOperands == {MonoOperand(m) : m \in InitMonomials}

VectorOperands ==
    {VectorOperand([Elements |-> es]) :
        es \in {<<>>, <<X1>>, <<X1, X1>>, <<X1, BadVariable>>}}
        \cup {KVectorOperand(<<K(1)>>), KVectorOperand(<<K(0), K(1)>>),
               VecDenseOperand(<<Float64(1), Float64(1)>>)}

MatrixOperands ==
    {MatrixOperand(m) : m \in {<<>>, <<<<X1>>>>, <<<<X1, X1>>, <<X1, X1>>>>}}

KArgs == KOperands \cup ScalarOperands \cup VectorOperands \cup MatrixOperands

\* c.Plus(e)
CallKPlus ==
    \E e \in KArgs \cup {PolyOperand(p)} :
        /\ last.op = "none"
        /\ last' = Call("K.Plus", K(c), e, KPlus(c, e))
        /\ UNCHANGED <<polyVars, c, dimVars, containerVars>>

\* c.Multiply(e); the case Polynomial calls e.Multiply(c), which writes the
\* products into the monomials of the caller's polynomial
CallKMultiply ==
    \E e \in KArgs \cup MonomialOperands \cup {PolyOperand(p)} :
        /\ last.op = "none"
        /\ last' = Call("K.Multiply", K(c), e, KMultiply(c, e))
        /\ p' = IF e.type = "Polynomial" THEN PolynomialMultiplyReceiver(p, K(c)) ELSE p
        /\ UNCHANGED <<p0, added, onlyConst, nCalls, c, dimVars, containerVars>>

\* c.Comparison(e, sense)
CallKComparison ==
    \E e \in KArgs \cup MonomialOperands \cup {PolyOperand(p)} :
        \E sense \in Senses :
            /\ last.op = "none"
            /\ last' = CCall("K.Comparison", K(c), e, sense, KComparison(c, e, sense))
            /\ UNCHANGED <<polyVars, c, dimVars, containerVars>>

NextK ==
    \/ CallKPlus
    \/ CallKMultiply
    \/ CallKComparison

SpecK == InitK /\ [][NextK]_vars

----------------------------------------------------------------------------
(* Properties of the polynomial algebra *)

\* A valid Polynomial: it has a monomial and every monomial passes Check
ValidPolynomial(q) == Len(q.Monomials) > 0 /\ IsNil(PolynomialCheck(q))

\* Number of zero-factor (constant) monomials of q
NumConstantMonomials(q) ==
    Cardinality({ii \in 1 .. Len(q.Monomials) : MonomialIsConstant(q.Monomials[ii])})

\* The footprint of a monomial: its (variable, exponent) pairs
Footprint(m) ==
    {<<m.VariableFactors[ii].ID, m.Exponents[ii]>> : ii \in 1 .. Len(m.VariableFactors)}

RECURSIVE CoefficientSum(_, _, _)
\* Sum of the coefficients of the first n monomials of ms with footprint f
CoefficientSum(ms, f, n) ==
    IF n = 0 THEN 0
    ELSE CoefficientSum(ms, f, n - 1)
            + (IF Footprint(ms[n]) = f THEN ms[n].Coefficient ELSE 0)

\* Term-merge normalisation: like terms summed, terms that sum to 0 dropped
Normalize(q) ==
    LET fs == {Footprint(q.Monomials[ii]) : ii \in 1 .. Len(q.Monomials)}
    IN  {<<f, CoefficientSum(q.Monomials, f, Len(q.Monomials))>> :
            f \in {g \in fs : CoefficientSum(q.Monomials, g, Len(q.Monomials)) # 0}}

\* C1: starting from a valid Polynomial with at most one constant monomial,
\* after any sequence of Plus calls with constant operands the polynomial
\* has at most one constant monomial and its Constant() is the initial
\* Constant() plus the sum of the constants added.
C1_ConstantMergesOnPlus ==
    (ValidPolynomial(p0) /\ NumConstantMonomials(p0) <= 1 /\ onlyConst)
        => /\ NumConstantMonomials(p) <= 1
           /\ PolynomialConstant(p) = Return(PolynomialConstant(p0).val + added)

\* C2: on a valid Polynomial with no constant monomial, Plus of a constant k
\* returns the monomials of p followed by the zero-factor monomial k.
C2_PlusAppendsConstant ==
    (/\ last.op = "Polynomial.Plus"
     /\ last.arg \in ConstOperands
     /\ ValidPolynomial(last.recv)
     /\ NumConstantMonomials(last.recv) = 0)
        => /\ last.out.kind = "return"
           /\ last.out.val =
                Polynomial(Append(last.recv.Monomials, KToMonomial(last.arg.num)))

\* C3: e.Plus(0) returns an expression value-equal to e after term-merge
\* normalisation, for a constant e and for a valid Polynomial e.
C3_PlusZeroIsIdentity ==
    /\ (/\ last.op = "Polynomial.Plus"
        /\ last.arg \in {Float64(0), K(0)}
        /\ ValidPolynomial(last.recv))
            => /\ last.out.kind = "return"
               /\ Normalize(last.out.val) = Normalize(last.recv)
    /\ (/\ last.op = "K.Plus"
        /\ last.arg \in {Float64(0), K(0), IntOperand(0)})
            => last.out = Return(last.recv)

\* C6: Check returns an error for an empty container: a Polynomial with no
\* monomials and a VariableVector with no elements.
C6_CheckRejectsEmpty ==
    /\ (last.op = "Polynomial.Check" /\ Len(last.recv.Monomials) = 0)
            => ~IsNil(last.out.val)
    /\ (cLast.op = "VariableVector.Check" /\ Len(cLast.recv.Elements) = 0)
            => ~IsNil(cLast.out.val)

----------------------------------------------------------------------------
(* The dimension checks: a caller that holds two operands and checks them  *)
(* for addition and for multiplication.                                    *)

DimValues == (1 .. MaxDim) \cup {VecLen}

MatrixLikes ==
    {MatrixLike(t, r, k) : t \in {"PolynomialMatrix", "KMatrix"},
                           r \in DimValues, k \in DimValues}

InitDims ==
    /\ left \in MatrixLikes
    /\ right \in MatrixLikes
    /\ dimLast = [op |-> "none", err |-> Nil]
    /\ IdlePoly
    /\ IdleK
    /\ last = NoCall
    /\ IdleContainers

CallCheckDimensionsInAddition ==
    /\ dimLast' = [op |-> "Plus", err |-> CheckDimensionsInAddition(left, right)]
    /\ UNCHANGED <<left, right, polyVars, c, last, containerVars>>

CallCheckDimensionsInMultiplication ==
    /\ dimLast' = [op |-> "Multiply",
                   err |-> CheckDimensionsInMultiplication(left, right)]
    /\ UNCHANGED <<left, right, polyVars, c, last, containerVars>>

NextDims ==
    \/ CallCheckDimensionsInAddition
    \/ CallCheckDimensionsInMultiplication

SpecDims == InitDims /\ [][NextDims]_vars

\* An operand of one row and one column
IsOneByOne(e) == Dims(e) = <<1, 1>>

\* C4: CheckDimensionsInAddition(left, right) returns the DimensionError
\* "Plus" with Arg1 = left and Arg2 = right exactly when neither operand is
\* a scalar and the operands differ in row count or in column count, and
\* nil in every other case.
C4_AdditionDimensionError ==
    dimLast.op = "Plus" =>
        IF /\ ~IsOneByOne(left)
           /\ ~IsOneByOne(right)
           /\ (left.dims[1] # right.dims[1] \/ left.dims[2] # right.dims[2])
        THEN /\ dimLast.err.name = "DimensionError"
             /\ dimLast.err.Operation = "Plus"
             /\ dimLast.err.Arg1 = left
             /\ dimLast.err.Arg2 = right
        ELSE IsNil(dimLast.err)

\* Two non-scalar operands with the same rows and different columns, rejected
C4_Witness ==
    /\ dimLast.op = "Plus"
    /\ ~IsNil(dimLast.err)
    /\ left.dims[1] = right.dims[1]
    /\ left.dims[2] # right.dims[2]
    /\ left.type # right.type

\* C5: CheckDimensionsInMultiplication(left, right) returns the
\* DimensionError "Multiply" with Arg1 = left and Arg2 = right exactly when
\* neither operand is a scalar and the columns of left differ from the rows
\* of right; a vector of length 20 times a vector of length 2 is rejected
\* and a vector of length 20 times a 1 x 1 operand is accepted.
C5_MultiplicationDimensionError ==
    dimLast.op = "Multiply" =>
        /\ IF /\ ~IsOneByOne(left)
              /\ ~IsOneByOne(right)
              /\ left.dims[2] # right.dims[1]
           THEN /\ dimLast.err.name = "DimensionError"
                /\ dimLast.err.Operation = "Multiply"
                /\ dimLast.err.Arg1 = left
                /\ dimLast.err.Arg2 = right
           ELSE IsNil(dimLast.err)
        /\ (left.dims = <<VecLen, 1>> /\ right.dims = <<2, 1>>)
                => ~IsNil(dimLast.err)
        /\ (left.dims = <<VecLen, 1>> /\ right.dims = <<1, 1>>)
                => IsNil(dimLast.err)

\* The vector of length 20 times the vector of length 2, rejected
C5_Witness ==
    /\ dimLast.op = "Multiply"
    /\ left.dims = <<VecLen, 1>>
    /\ right.dims = <<2, 1>>
    /\ dimLast.err.name = "DimensionError"
    /\ left.type # right.type

----------------------------------------------------------------------------
(* The containers: a caller builds a VariableMatrix or a VariableVector    *)
(* literal and makes one call on it.                                       *)

Elements == {X1, BadVariable}

Rows == SeqsUpTo(Elements, MaxCols)

\* The matrices handed to Check
CheckMatrices == SeqsUpTo(Rows, MaxRows)

\* The matrices that receive Plus, Multiply and Comparison
InitMatrices == SeqsUpTo(Rows, MaxCols)

InitVectors == {[Elements |-> es] : es \in Rows}

InitCheck ==
    /\ \/ vm \in CheckMatrices /\ vv = [Elements |-> <<>>]
       \/ vm = <<>> /\ vv \in InitVectors
    /\ cLast = NoCCall
    /\ IdlePoly
    /\ IdleK
    /\ last = NoCall
    /\ IdleDims

\* vm.Check()
CallVariableMatrixCheck ==
    /\ cLast.op = "none"
    /\ cLast' = CCall("VariableMatrix.Check", vm, Nil, "", Return(VariableMatrixCheck(vm)))
    /\ UNCHANGED <<vm, vv, polyVars, c, last, dimVars>>

\* vv.Check()
CallVariableVectorCheck ==
    /\ cLast.op = "none"
    /\ cLast' = CCall("VariableVector.Check", vv, Nil, "", Return(VariableVectorCheck(vv)))
    /\ UNCHANGED <<vm, vv, polyVars, c, last, dimVars>>

NextCheck ==
    \/ CallVariableMatrixCheck
    \/ CallVariableVectorCheck

SpecCheck == InitCheck /\ [][NextCheck]_vars

\* The right operands of the calls on a matrix: numbers, variables,
\* vectors, matrices (the receiver among them) and a string
ArgVectors ==
    {[Elements |-> <<X1>>], [Elements |-> <<X1, X1>>], [Elements |-> <<X1, BadVariable>>]}

ArgMatrices ==
    { <<>>, <<<<X1>>>>, <<<<X1, X1>>>>, <<<<X1>>, <<X1>>>>,
      <<<<X1>>, <<X1, X1>>>>, <<<<X1>>, <<X1>>, <<X1, X1>>>>,
      <<<<BadVariable>>>>, <<<<X1, X1>>, <<X1, BadVariable>>>> }

MatrixArgs(m) ==
    ConstOperands
        \cup {VarOperand(X1), VarOperand(BadVariable), StringOperand}
        \cup {VectorOperand(v) : v \in ArgVectors}
        \cup {MatrixOperand(a) : a \in ArgMatrices \cup {m}}

InitMatrix ==
    /\ vm \in InitMatrices
    /\ vv = [Elements |-> <<>>]
    /\ cLast = NoCCall
    /\ IdlePoly
    /\ IdleK
    /\ last = NoCall
    /\ IdleDims

\* vm.Plus(e)
CallVariableMatrixPlus ==
    \E e \in MatrixArgs(vm) :
        /\ cLast.op = "none"
        /\ cLast' = CCall("VariableMatrix.Plus", vm, e, "", VariableMatrixPlus(vm, e))
        /\ UNCHANGED <<vm, vv, polyVars, c, last, dimVars>>

\* vm.Multiply(e)
CallVariableMatrixMultiply ==
    \E e \in MatrixArgs(vm) :
        /\ cLast.op = "none"
        /\ cLast' = CCall("VariableMatrix.Multiply", vm, e, "",
                          VariableMatrixMultiply(vm, e))
        /\ UNCHANGED <<vm, vv, polyVars, c, last, dimVars>>

\* vm.Comparison(e, sense)
CallVariableMatrixComparison ==
    \E e \in MatrixArgs(vm) :
        \E sense \in Senses :
            /\ cLast.op = "none"
            /\ cLast' = CCall("VariableMatrix.Comparison", vm, e, sense,
                              VariableMatrixComparison(vm, e, sense))
            /\ UNCHANGED <<vm, vv, polyVars, c, last, dimVars>>

NextMatrix ==
    \/ CallVariableMatrixPlus
    \/ CallVariableMatrixMultiply
    \/ CallVariableMatrixComparison

SpecMatrix == InitMatrix /\ [][NextMatrix]_vars

----------------------------------------------------------------------------
(* Properties of the containers *)

\* Row ii (from 0) of m has another length than row 0
RowMismatch(m, ii) == Len(m[ii + 1]) # Len(m[1])

IsRagged(m) == \E ii \in 0 .. (Len(m) - 1) : RowMismatch(m, ii)

\* Entry (ii, jj) (from 0) of m fails its Check
InvalidEntry(m, ii, jj) == ~IsNil(VariableCheck(m[ii + 1][jj + 1]))

HasInvalidEntry(m) ==
    \E ii \in 0 .. (Len(m) - 1) : \E jj \in 0 .. (Len(m[ii + 1]) - 1) :
        InvalidEntry(m, ii, jj)

\* C7: for a non-empty ragged matrix Check returns the column-mismatch
\* error with the column count of row 0, the smallest mismatching row and
\* that row's length, also when an element of the matrix is invalid.
C7_RaggedMatrixError ==
    (/\ cLast.op = "VariableMatrix.Check"
     /\ Len(cLast.recv) > 0
     /\ IsRagged(cLast.recv))
        => LET m == cLast.recv
               e == cLast.out.val
           IN  /\ e.name = "MatrixColumnMismatchError"
               /\ e.ExpectedNColumns = Len(m[1])
               /\ e.Row \in 0 .. (Len(m) - 1)
               /\ RowMismatch(m, e.Row)
               /\ \A kk \in 0 .. (e.Row - 1) : ~RowMismatch(m, kk)
               /\ e.ActualNColumns = Len(m[e.Row + 1])

\* A matrix with two mismatching rows and an invalid element before them
C7_Witness ==
    /\ cLast.op = "VariableMatrix.Check"
    /\ Len(cLast.recv) = 3
    /\ RowMismatch(cLast.recv, 1)
    /\ RowMismatch(cLast.recv, 2)
    /\ Len(cLast.recv[1]) > 0
    /\ InvalidEntry(cLast.recv, 0, 0)
    /\ cLast.out.val.name = "MatrixColumnMismatchError"

\* C8: Check returns nil exactly for a matrix with a row, all rows as long
\* as row 0 and every element valid; when the only defect is an invalid
\* element, the error names the first invalid entry in row-major order.
C8_MatrixCheck ==
    cLast.op = "VariableMatrix.Check" =>
        LET m == cLast.recv
            e == cLast.out.val
        IN  /\ IsNil(e) <=> (Len(m) > 0 /\ ~IsRagged(m) /\ ~HasInvalidEntry(m))
            /\ (Len(m) > 0 /\ ~IsRagged(m) /\ HasInvalidEntry(m))
                => /\ e.name = "error in entry"
                   /\ InvalidEntry(m, e.ii, e.jj)
                   /\ \A ii \in 0 .. (Len(m) - 1) : \A jj \in 0 .. (Len(m[1]) - 1) :
                        (ii < e.ii \/ (ii = e.ii /\ jj < e.jj))
                            => ~InvalidEntry(m, ii, jj)

\* A rectangular matrix with several invalid entries, the first not in row 0
C8_Witness ==
    /\ cLast.op = "VariableMatrix.Check"
    /\ cLast.out.val.name = "error in entry"
    /\ cLast.out.val.ii >= 1
    /\ Cardinality(BadEntries(cLast.recv)) >= 2

\* C9: VariableMatrix.Plus, Multiply and Comparison panic with the
\* receiver's Check error when the receiver fails Check, whatever the right
\* operand; otherwise with the right operand's Check error when the right
\* operand is an expression that fails Check, whatever the dimensions.
C9_ValidationOrder ==
    cLast.op \in {"VariableMatrix.Plus", "VariableMatrix.Multiply",
                  "VariableMatrix.Comparison"} =>
        /\ ~IsNil(VariableMatrixCheck(cLast.recv))
            => cLast.out = Panic(VariableMatrixCheck(cLast.recv))
        /\ (/\ IsNil(VariableMatrixCheck(cLast.recv))
            /\ IsExpression(cLast.arg)
            /\ ~IsNil(ExpressionCheck(cLast.arg)))
            => /\ cLast.out.kind = "panic"
               /\ cLast.out.err.name = "error in second argument"
               /\ cLast.out.err.err = ExpressionCheck(cLast.arg)

\* A valid matrix multiplied by a ragged matrix of another row count
C9_Witness ==
    /\ cLast.op = "VariableMatrix.Multiply"
    /\ IsNil(VariableMatrixCheck(cLast.recv))
    /\ cLast.arg.type = "VariableMatrix"
    /\ Len(cLast.arg.rows) > Len(cLast.recv[1])
    /\ IsRagged(cLast.arg.rows)
    /\ cLast.out.kind = "panic"
    /\ cLast.out.err.name = "error in second argument"

\* C10: for a valid m x n VariableMatrix vm and a scalar constant k,
\* vm.Plus(k) returns the m x n matrix of the polynomials vm[i][j] + k and
\* vm.Multiply(k) the m x n matrix of the monomials k * vm[i][j].
C10_ScalarBroadcast ==
    (/\ cLast.op \in {"VariableMatrix.Plus", "VariableMatrix.Multiply"}
     /\ IsNil(VariableMatrixCheck(cLast.recv))
     /\ cLast.arg \in ConstOperands)
        => /\ cLast.out.kind = "return"
           /\ Len(cLast.out.val) = Len(cLast.recv)
           /\ \A ii \in 1 .. Len(cLast.recv) :
                /\ Len(cLast.out.val[ii]) = Len(cLast.recv[ii])
                /\ \A jj \in 1 .. Len(cLast.recv[ii]) :
                    cLast.out.val[ii][jj] =
                        IF cLast.op = "VariableMatrix.Plus"
                        THEN VariablePlusK(cLast.recv[ii][jj], cLast.arg.num)
                        ELSE VariableMultiplyK(cLast.recv[ii][jj], cLast.arg.num)

----------------------------------------------------------------------------
(* Properties of the constants *)

\* A vector or matrix operand with an element, every element valid
ValidContainerOperand(e) ==
    \/ /\ e.type \in {"KVector", "mat.VecDense"}
       /\ Len(e.Elements) > 0
    \/ /\ e.type = "VariableVector"
       /\ Len(e.Elements) > 0
       /\ IsNil(VariableVectorCheck(e))
    \/ /\ e.type = "VariableMatrix"
       /\ IsNil(VariableMatrixCheck(e.rows))

\* C11: for a constant c and a valid vector or matrix operand e,
\* c.Multiply(e) returns a result of the dimensions of e in which every
\* entry is the entry of e scaled by c; it does not abort.
C11_ConstantScalesContainers ==
    (last.op = "K.Multiply" /\ ValidContainerOperand(last.arg))
        => LET e == last.arg
               k == last.recv.num
           IN  /\ last.out.kind = "return"
               /\ e.type \in {"KVector", "mat.VecDense"}
                    => last.out.val.Elements =
                        [ii \in 1 .. Len(e.Elements) |-> K(k * e.Elements[ii].num)]
               /\ e.type = "VariableVector"
                    => last.out.val.Elements =
                        [ii \in 1 .. Len(e.Elements) |->
                            VariableMultiplyK(e.Elements[ii], k)]
               /\ e.type = "VariableMatrix"
                    => last.out.val.rows =
                        [ii \in 1 .. Len(e.rows) |->
                            [jj \in 1 .. Len(e.rows[ii]) |->
                                VariableMultiplyK(e.rows[ii][jj], k)]]

----------------------------------------------------------------------------
(* The vectors: a caller builds a VariableVector literal and makes one call *)
(* of Plus, Multiply or Comparison on it.                                  *)

\* The right operands of the calls on a vector, the receiver among them
VectorArgs(v) ==
    ScalarOperands \cup VectorOperands
        \cup {MatrixOperand(m) : m \in {<<<<X1>>>>, <<<<X1, X1>>, <<X1, X1>>>>}}
        \cup {VectorOperand(v), StringOperand}

InitVector ==
    /\ vv \in InitVectors
    /\ vm = <<>>
    /\ cLast = NoCCall
    /\ IdlePoly
    /\ IdleK
    /\ last = NoCall
    /\ IdleDims

\* vv.Plus(e)
CallVariableVectorPlus ==
    \E e \in VectorArgs(vv) :
        /\ cLast.op = "none"
        /\ cLast' = CCall("VariableVector.Plus", vv, e, "", VariableVectorPlus(vv, e))
        /\ UNCHANGED <<vm, vv, polyVars, c, last, dimVars>>

\* vv.Multiply(e)
CallVariableVectorMultiply ==
    \E e \in VectorArgs(vv) :
        /\ cLast.op = "none"
        /\ cLast' = CCall("VariableVector.Multiply", vv, e, "",
                          VariableVectorMultiply(vv, e))
        /\ UNCHANGED <<vm, vv, polyVars, c, last, dimVars>>

\* vv.Comparison(e, sense); LessEq, GreaterEq and Eq are this call with
\* the senses <=, >= and ==
CallVariableVectorComparison ==
    \E e \in VectorArgs(vv) :
        \E sense \in Senses :
            /\ cLast.op = "none"
            /\ cLast' = CCall("VariableVector.Comparison", vv, e, sense,
                              VariableVectorComparison(vv, e, sense))
            /\ UNCHANGED <<vm, vv, polyVars, c, last, dimVars>>

NextVector ==
    \/ CallVariableVectorPlus
    \/ CallVariableVectorMultiply
    \/ CallVariableVectorComparison

SpecVector == InitVector /\ [][NextVector]_vars

----------------------------------------------------------------------------
(* Properties of the vectors *)

\* A valid VariableVector: it has an element and every element passes Check
ValidVector(v) == Len(v.Elements) > 0 /\ IsNil(VariableVectorCheck(v))

\* A valid scalar operand: a number or a valid variable
ValidScalarOperand(e) ==
    \/ e \in ConstOperands
    \/ e.type = "Variable" /\ IsNil(VariableCheck(e.var))

\* C12: for a valid VariableVector vv of length n, vv.Plus(x) returns a
\* vector of length n when x is a scalar or a valid vector of length n, and
\* vv.Multiply(k) returns a vector of length n when k is a scalar constant.
C12_VectorPlusMultiplyReturn ==
    /\ (/\ cLast.op = "VariableVector.Plus"
        /\ ValidVector(cLast.recv)
        /\ \/ ValidScalarOperand(cLast.arg)
           \/ /\ ValidContainerOperand(cLast.arg)
              /\ IsVectorExpression(cLast.arg)
              /\ Len(cLast.arg.Elements) = Len(cLast.recv.Elements))
            => /\ cLast.out.kind = "return"
               /\ Len(cLast.out.val.Elements) = Len(cLast.recv.Elements)
    /\ (/\ cLast.op = "VariableVector.Multiply"
        /\ ValidVector(cLast.recv)
        /\ cLast.arg \in ConstOperands)
            => /\ cLast.out.kind = "return"
               /\ Len(cLast.out.val.Elements) = Len(cLast.recv.Elements)

\* C17: VariableVector.Comparison of a valid vector against a valid vector
\* operand returns the VectorConstraint of the receiver, the operand and
\* the sense when the lengths are equal, and aborts with a DimensionError
\* that names the comparison and both operands when they differ.
C17_VectorComparison ==
    (/\ cLast.op = "VariableVector.Comparison"
     /\ ValidVector(cLast.recv)
     /\ IsVectorExpression(cLast.arg)
     /\ ValidContainerOperand(cLast.arg))
        => IF Len(cLast.arg.Elements) = Len(cLast.recv.Elements)
           THEN /\ cLast.out.kind = "return"
                /\ cLast.out.val.type = "VectorConstraint"
                /\ cLast.out.val.LeftHandSide = cLast.recv
                /\ cLast.out.val.RightHandSide =
                        IF cLast.arg.type = "mat.VecDense"
                        THEN VecDenseToKVector(cLast.arg) ELSE cLast.arg
                /\ cLast.out.val.Sense = cLast.sense
           ELSE /\ cLast.out.kind = "panic"
                /\ cLast.out.err.name = "DimensionError"
                /\ cLast.out.err.Operation = "Comparison"
                /\ Dims(cLast.out.err.Arg1) = <<Len(cLast.recv.Elements), 1>>
                /\ Dims(cLast.out.err.Arg2) = Dims(cLast.arg)

\* C18: comparison of a valid vector of length n against a scalar constant
\* returns the VectorConstraint whose left side is the vector and whose
\* right side has n entries, each equal to the scalar, for every sense.
C18_VectorComparisonBroadcast ==
    (/\ cLast.op = "VariableVector.Comparison"
     /\ ValidVector(cLast.recv)
     /\ cLast.arg \in ConstOperands)
        => /\ cLast.out.kind = "return"
           /\ cLast.out.val.type = "VectorConstraint"
           /\ cLast.out.val.LeftHandSide = cLast.recv
           /\ cLast.out.val.RightHandSide.Elements =
                [ii \in 1 .. Len(cLast.recv.Elements) |-> K(cLast.arg.num)]
           /\ cLast.out.val.Sense = cLast.sense

\* C19: VariableVector.Comparison aborts with a validation error, and
\* returns no constraint, when the receiver fails Check or the right
\* operand is an expression that fails Check.
C19_VectorComparisonValidates ==
    cLast.op = "VariableVector.Comparison" =>
        /\ ~IsNil(VariableVectorCheck(cLast.recv))
            => cLast.out = Panic(VariableVectorCheck(cLast.recv))
        /\ (/\ IsNil(VariableVectorCheck(cLast.recv))
            /\ IsExpression(cLast.arg)
            /\ ~IsNil(ExpressionCheck(cLast.arg)))
            => /\ cLast.out.kind = "panic"
               /\ \/ cLast.out.err = ExpressionCheck(cLast.arg)
                  \/ /\ cLast.out.err.name = "error in second argument"
                     /\ cLast.out.err.err = ExpressionCheck(cLast.arg)

----------------------------------------------------------------------------
(* The algebra on a held operand: a caller builds a Polynomial p, keeps it, *)
(* and makes one call (or one pair of compositions) on it.  Here p is what *)
(* the caller's variable holds, before and after the call.                 *)

\* Constant factors: 0 .. MaxConst + 1, as float64 and as K
ScaleOperands ==
    {Float64(k) : k \in 0 .. (MaxConst + 1)} \cup {K(k) : k \in 0 .. (MaxConst + 1)}

MultiplyOperands ==
    ScaleOperands \cup {VarOperand(X1), VarOperand(BadVariable)}
        \cup MonomialOperands
        \cup {VectorOperand([Elements |-> <<X1, X1>>]), StringOperand}

\* A result as the right operand of a further call
AsOperand(v) ==
    IF "type" \in DOMAIN v THEN v
    ELSE IF "Monomials" \in DOMAIN v THEN PolyOperand(v)
    ELSE MonoOperand(v)

\* q.Multiply(r) for a scalar q: K.Multiply, Variable.Multiply (the
\* product of the monomial of q with r) or Polynomial.Multiply
ScalarMultiply(q, r) ==
    IF q.type \in {"float64", "K"} THEN KMultiply(q.num, r)
    ELSE IF q.type = "Variable"
        THEN IF ~IsNil(VariableCheck(q.var)) THEN Panic(VariableCheck(q.var))
             ELSE MonomialMultiply(VariableToMonomial(q.var), r)
    ELSE PolynomialMultiply(q.poly, r)

\* (p.Plus(q)).Multiply(r)
SumTimes(a, q, r) ==
    LET sum == PolynomialPlus(a, q)
    IN  IF sum.kind = "panic" THEN sum ELSE PolynomialMultiply(sum.val, r)

\* (p.Multiply(r)).Plus(q.Multiply(r))
TimesSum(a, q, r) ==
    LET pr == PolynomialMultiply(a, r)
        qr == ScalarMultiply(q, r)
    IN  IF pr.kind = "panic" THEN pr
        ELSE IF qr.kind = "panic" THEN qr
        ELSE PolynomialPlus(pr.val, AsOperand(qr.val))

DistributeOperands ==
    ConstOperands \cup {VarOperand(v) : v \in Variables}

InitAlgebra ==
    /\ InitPoly
    /\ last = NoCall
    /\ IdleK
    /\ IdleDims
    /\ IdleContainers

\* q := p.Multiply(e), the caller keeps p
CallPolynomialMultiply ==
    \E e \in MultiplyOperands \cup {PolyOperand(p)} :
        /\ last.op = "none"
        /\ last' = Call("Polynomial.Multiply", p, e, PolynomialMultiply(p, e))
        /\ p' = PolynomialMultiplyReceiver(p, e)
        /\ UNCHANGED <<p0, added, onlyConst, nCalls, c, dimVars, containerVars>>

\* q := p.Plus(e), the caller keeps p
CallPolynomialPlusKeep ==
    \E e \in PlusOperands \cup MonomialOperands :
        /\ last.op = "none"
        /\ last' = Call("Polynomial.Plus", p, e, PolynomialPlus(p, e))
        /\ p' = PolynomialPlusReceiver(p, e)
        /\ UNCHANGED <<p0, added, onlyConst, nCalls, c, dimVars, containerVars>>

\* p.Comparison(e, sense); LessEq, GreaterEq and Eq are this call with the
\* senses <=, >= and ==
CallPolynomialComparison ==
    \E e \in ScalarOperands \cup MonomialOperands
                \cup {PolyOperand(p), StringOperand} :
        \E sense \in Senses :
            /\ last.op = "none"
            /\ last' = CCall("Polynomial.Comparison", p, e, sense,
                             PolynomialComparison(p, e, sense))
            /\ UNCHANGED <<polyVars, c, dimVars, containerVars>>

\* l := p.Plus(q).Multiply(r); r2 := p.Multiply(r).Plus(q.Multiply(r)),
\* for q and r that share no storage with p
CallDistribute ==
    \E q \in DistributeOperands \cup {PolyOperand(Polynomial(<<VariableToMonomial(X1)>>))} :
        \E r \in DistributeOperands :
            /\ last.op = "none"
            /\ last' = [op |-> "Distribute", recv |-> p, q |-> q, r |-> r,
                        lhs |-> SumTimes(p, q, r), rhs |-> TimesSum(p, q, r)]
            /\ p' = PolynomialMultiplyReceiver(p, r)
            /\ UNCHANGED <<p0, added, onlyConst, nCalls, c, dimVars, containerVars>>

NextAlgebra ==
    \/ CallPolynomialMultiply
    \/ CallPolynomialPlusKeep
    \/ CallPolynomialComparison
    \/ CallDistribute

SpecAlgebra == InitAlgebra /\ [][NextAlgebra]_vars

----------------------------------------------------------------------------
(* Properties of the algebra on a held operand *)

\* C13: for a valid Polynomial p and a constant k, p.Multiply(k) returns a
\* Polynomial with as many monomials in the same order, each with its
\* coefficient multiplied by k and its factors and exponents unchanged.
C13_MultiplyScalesCoefficients ==
    (/\ last.op = "Polynomial.Multiply"
     /\ ValidPolynomial(last.recv)
     /\ last.arg \in ScaleOperands)
        => /\ last.out.kind = "return"
           /\ Len(last.out.val.Monomials) = Len(last.recv.Monomials)
           /\ \A ii \in 1 .. Len(last.recv.Monomials) :
                last.out.val.Monomials[ii] =
                    Monomial(last.recv.Monomials[ii].Coefficient * last.arg.num,
                             last.recv.Monomials[ii].VariableFactors,
                             last.recv.Monomials[ii].Exponents)

\* A polynomial of a constant and a variable term, multiplied by 2
C13_Witness ==
    /\ last.op = "Polynomial.Multiply"
    /\ last.arg.type = "float64"
    /\ last.arg.num = 2
    /\ Len(last.recv.Monomials) = 2
    /\ MonomialIsConstant(last.recv.Monomials[1])
    /\ ~MonomialIsConstant(last.recv.Monomials[2])
    /\ last.out.kind = "return"
    /\ last.out.val.Monomials[2].Coefficient = 2

\* C14: after p.Multiply(x) or p.Plus(x), for x a constant, a variable or
\* a monomial, the caller's p holds the monomials it held before the call,
\* whether the call returned or aborted.
C14_OperandNotMutated ==
    (/\ last.op \in {"Polynomial.Multiply", "Polynomial.Plus"}
     /\ last.arg.type \in {"float64", "K", "Variable", "Monomial"})
        => p = last.recv

\* C15: for a valid Polynomial p and a valid Variable v, p.Plus(v) returns
\* p with the coefficient of its monomial v^1 increased by 1 when it has
\* one, and p followed by the monomial 1*v otherwise.
C15_PlusVariable ==
    (/\ last.op = "Polynomial.Plus"
     /\ ValidPolynomial(last.recv)
     /\ last.arg.type = "Variable"
     /\ IsNil(VariableCheck(last.arg.var)))
        => LET ms == last.recv.Monomials
               ii == VariableMonomialIndex(last.recv, last.arg.var)
           IN  /\ last.out.kind = "return"
               /\ last.out.val.Monomials =
                    IF ii # 0 - 1
                    THEN [ms EXCEPT ![ii + 1] =
                            Monomial(ms[ii + 1].Coefficient + 1,
                                     ms[ii + 1].VariableFactors, ms[ii + 1].Exponents)]
                    ELSE Append(ms, VariableToMonomial(last.arg.var))

\* C16: for a valid polynomial p and valid scalars q and r, p.Plus(q)
\* .Multiply(r) and p.Multiply(r).Plus(q.Multiply(r)) both return, and
\* their terms are equal after like terms are merged.
C16_Distributive ==
    (/\ last.op = "Distribute"
     /\ ValidPolynomial(last.recv))
        => /\ last.lhs.kind = "return"
           /\ last.rhs.kind = "return"
           /\ Normalize(last.lhs.val) = Normalize(last.rhs.val)

\* A valid scalar right operand
ValidScalar(e) ==
    \/ e.type \in {"float64", "K"}
    \/ e.type = "Variable" /\ IsNil(VariableCheck(e.var))
    \/ e.type = "Monomial" /\ IsNil(MonomialCheck(e.mono))
    \/ e.type = "Polynomial" /\ ValidPolynomial(e.poly)

\* C20: for a scalar receiver s (a constant or a valid Polynomial) and a
\* valid scalar r, s.Comparison(r, sense) returns the ScalarConstraint of
\* s, r itself (the constant of the same value for a float64) and sense.
C20_ScalarComparison ==
    (/\ last.op \in {"K.Comparison", "Polynomial.Comparison"}
     /\ last.op = "Polynomial.Comparison" => ValidPolynomial(last.recv)
     /\ ValidScalar(last.arg))
        => last.out =
            Return(ScalarConstraint(
                IF last.op = "K.Comparison" THEN last.recv ELSE PolyOperand(last.recv),
                IF last.arg.type = "float64" THEN K(last.arg.num) ELSE last.arg,
                last.sense))

----------------------------------------------------------------------------
(* Accessors: Variables(), Constant() and Transpose() of the containers    *)
(* and of Polynomial.                                                      *)

\* UniqueVars: every variable identity of the list once, in the order of
\* its first occurrence
RECURSIVE UniqueVars(_)
UniqueVars(vs) ==
    IF vs = <<>>
    THEN <<>>
    ELSE LET front == UniqueVars(SubSeq(vs, 1, Len(vs) - 1))
             v == vs[Len(vs)]
         IN  IF \E ii \in 1 .. Len(front) : front[ii].ID = v.ID
             THEN front
             ELSE Append(front, v)

\* Monomial.Variables: the variable factors of the monomial
MonomialVariables(m) == m.VariableFactors

\* The rows of a slice of slices appended one after the other
RECURSIVE Flatten(_)
Flatten(rows) ==
    IF rows = <<>> THEN <<>> ELSE rows[1] \o Flatten(Tail(rows))

\* VariableVector.Variables: the elements themselves
VariableVectorVariables(v) == Return(v.Elements)

\* VariableMatrix.Variables
VariableMatrixVariables(m) ==
    IF ~IsNil(VariableMatrixCheck(m))
    THEN Panic(VariableMatrixCheck(m))
    ELSE Return(UniqueVars(Flatten(m)))

\* Polynomial.Variables
PolynomialVariables(q) ==
    Return(UniqueVars(Flatten([ii \in 1 .. Len(q.Monomials) |->
                                   MonomialVariables(q.Monomials[ii])])))

\* ZerosVector(n): a mat.VecDense of n zeros; a dense vector has at least
\* one entry
ZerosVector(n) ==
    IF n = 0
    THEN Panic([name |-> "mat: zero length in matrix dimension"])
    ELSE Return(VecDenseOperand([ii \in 1 .. n |-> Float64(0)]))

\* ZerosMatrix(nR, nC): a mat.Dense of nR x nC zeros
ZerosMatrix(nR, nC) ==
    IF nR = 0 \/ nC = 0
    THEN Panic([name |-> "mat: zero length in matrix dimension"])
    ELSE Return([type |-> "mat.Dense",
                 rows |-> [ii \in 1 .. nR |-> [jj \in 1 .. nC |-> Float64(0)]]])

\* VariableVector.Len
VariableVectorLen(v) == Len(v.Elements)

\* VariableVector.Dims
VariableVectorDims(v) == <<VariableVectorLen(v), 1>>

\* VariableMatrix.Dims
VariableMatrixDims(m) ==
    IF ~IsNil(VariableMatrixCheck(m))
    THEN Panic(VariableMatrixCheck(m))
    ELSE Return(<<Len(m), Len(m[1])>>)

\* VariableVector.Constant
VariableVectorConstant(v) == ZerosVector(VariableVectorLen(v))

\* A Constant() that swaps the two dimensions
VariableMatrixConstantSwapsDims(m) ==
    LET dims == VariableMatrixDims(m)
    IN  IF dims.kind = "panic"
        THEN dims
        ELSE ZerosMatrix(dims.val[2], dims.val[1])

\* VariableMatrix.Constant
VariableMatrixConstant(m) ==
    LET dims == VariableMatrixDims(m)
    IN  IF dims.kind = "panic"
        THEN dims
        ELSE ZerosMatrix(dims.val[1], dims.val[2])

\* VariableVector.Transpose: the receiver itself
VariableVectorTranspose(v) == Return(v)

\* A transpose that keeps the rows where they are
VariableMatrixTransposeKeepsRows(m) ==
    IF ~IsNil(VariableMatrixCheck(m))
    THEN Panic(VariableMatrixCheck(m))
    ELSE Return(m)

\* VariableMatrix.Transpose: a fresh nCols x nRows matrix with
\* vmOut[jj][ii] = vm[ii][jj]
VariableMatrixTranspose(m) ==
    IF ~IsNil(VariableMatrixCheck(m))
    THEN Panic(VariableMatrixCheck(m))
    ELSE LET nRows == Len(m)
             nCols == Len(m[1])
         IN  Return([jj \in 1 .. nCols |-> [ii \in 1 .. nRows |-> m[ii][jj]]])

\* A second well-defined variable
X2 == Variable(2, 0, 1)

AccessorElements == {X1, X2}

AccessorRows == SeqsUpTo(AccessorElements, MaxCols)

AccessorVectors == {[Elements |-> es] : es \in AccessorRows}

AccessorMatrices == SeqsUpTo(AccessorRows, MaxDim)

\* A caller that holds one container or one polynomial and calls one of its
\* accessors
InitAccessors ==
    /\ \/ vm \in AccessorMatrices /\ vv = [Elements |-> <<>>] /\ IdlePoly
       \/ vm = <<>> /\ vv \in AccessorVectors /\ IdlePoly
       \/ vm = <<>> /\ vv = [Elements |-> <<>>] /\ InitPoly
    /\ cLast = NoCCall
    /\ last = NoCall
    /\ IdleK
    /\ IdleDims

NoAccessorCall == cLast.op = "none" /\ last.op = "none"

\* vv.Variables()
CallVariableVectorVariables ==
    /\ NoAccessorCall
    /\ cLast' = CCall("VariableVector.Variables", vv, Nil, "",
                      VariableVectorVariables(vv))
    /\ UNCHANGED <<vm, vv, polyVars, c, last, dimVars>>

\* vm.Variables()
CallVariableMatrixVariables ==
    /\ NoAccessorCall
    /\ cLast' = CCall("VariableMatrix.Variables", vm, Nil, "",
                      VariableMatrixVariables(vm))
    /\ UNCHANGED <<vm, vv, polyVars, c, last, dimVars>>

\* p.Variables()
CallPolynomialVariables ==
    /\ NoAccessorCall
    /\ last' = Call("Polynomial.Variables", p, Nil, PolynomialVariables(p))
    /\ UNCHANGED <<polyVars, c, dimVars, containerVars>>

\* vv.Constant()
CallVariableVectorConstant ==
    /\ NoAccessorCall
    /\ cLast' = CCall("VariableVector.Constant", vv, Nil, "",
                      VariableVectorConstant(vv))
    /\ UNCHANGED <<vm, vv, polyVars, c, last, dimVars>>

\* vm.Constant()
CallVariableMatrixConstant ==
    /\ NoAccessorCall
    /\ cLast' = CCall("VariableMatrix.Constant", vm, Nil, "",
                      VariableMatrixConstant(vm))
    /\ UNCHANGED <<vm, vv, polyVars, c, last, dimVars>>

\* p.Constant()
CallAccessorPolynomialConstant ==
    /\ NoAccessorCall
    /\ CallPolynomialConstant

\* vv.Transpose()
CallVariableVectorTranspose ==
    /\ NoAccessorCall
    /\ cLast' = CCall("VariableVector.Transpose", vv, Nil, "",
                      VariableVectorTranspose(vv))
    /\ UNCHANGED <<vm, vv, polyVars, c, last, dimVars>>

\* vm.Transpose(): the result is a new slice, the receiver keeps its rows
CallVariableMatrixTranspose ==
    /\ NoAccessorCall
    /\ cLast' = CCall("VariableMatrix.Transpose", vm, Nil, "",
                      VariableMatrixTranspose(vm))
    /\ UNCHANGED <<vm, vv, polyVars, c, last, dimVars>>

NextAccessors ==
    \/ CallVariableVectorVariables
    \/ CallVariableMatrixVariables
    \/ CallPolynomialVariables
    \/ CallVariableVectorConstant
    \/ CallVariableMatrixConstant
    \/ CallAccessorPolynomialConstant
    \/ CallVariableVectorTranspose
    \/ CallVariableMatrixTranspose

SpecAccessors == InitAccessors /\ [][NextAccessors]_vars

\* The identities of the variables of a list
IDsOf(vs) == {vs[ii].ID : ii \in 1 .. Len(vs)}

\* No identity occurs twice in the list
NoDuplicateIDs(vs) ==
    \A ii, jj \in 1 .. Len(vs) : vs[ii].ID = vs[jj].ID => ii = jj

\* A matrix that passes Check and has at least one column
ValidMatrix(m) == IsNil(VariableMatrixCheck(m)) /\ Len(m[1]) > 0

\* The variable occurrences of a container or polynomial, one after the other
Occurrences(op, recv) ==
    IF op = "VariableVector.Variables" THEN recv.Elements
    ELSE IF op = "VariableMatrix.Variables" THEN Flatten(recv)
    ELSE Flatten([ii \in 1 .. Len(recv.Monomials) |->
                      recv.Monomials[ii].VariableFactors])

VariablesExact(call) ==
    /\ call.out.kind = "return"
    /\ NoDuplicateIDs(call.out.val)
    /\ IDsOf(call.out.val) = IDsOf(Occurrences(call.op, call.recv))

\* C21: Variables() of a valid VariableVector, VariableMatrix or Polynomial
\* returns every variable identity of the container exactly once, also
\* when a variable occurs in several elements or terms
C21_VariablesUnique ==
    /\ (cLast.op = "VariableVector.Variables" /\ ValidVector(cLast.recv))
           => VariablesExact(cLast)
    /\ (cLast.op = "VariableMatrix.Variables" /\ ValidMatrix(cLast.recv))
           => VariablesExact(cLast)
    /\ (last.op = "Polynomial.Variables" /\ ValidPolynomial(last.recv))
           => VariablesExact(last)

\* The index of the first zero-factor monomial of q, 0 when there is none
FirstConstantMonomial(q) ==
    LET idx == {ii \in 1 .. Len(q.Monomials) : MonomialIsConstant(q.Monomials[ii])}
    IN  IF idx = {} THEN 0 ELSE CHOOSE ii \in idx : \A jj \in idx : ii <= jj

\* C22: Constant() of a valid polynomial is the coefficient of its
\* zero-factor monomial (the first one in term order) and 0 when it has
\* none; Constant() of a VariableVector of length n >= 1 is the vector of n
\* zeros and Constant() of a valid m x n VariableMatrix is the m x n matrix
\* of zeros
C22_Constant ==
    /\ (last.op = "Polynomial.Constant" /\ ValidPolynomial(last.recv))
           => last.out =
                  Return(IF FirstConstantMonomial(last.recv) = 0
                         THEN 0
                         ELSE last.recv.Monomials[
                                  FirstConstantMonomial(last.recv)].Coefficient)
    /\ (cLast.op = "VariableVector.Constant" /\ Len(cLast.recv.Elements) > 0)
           => /\ cLast.out.kind = "return"
              /\ cLast.out.val.type = "mat.VecDense"
              /\ Len(cLast.out.val.Elements) = Len(cLast.recv.Elements)
              /\ \A ii \in 1 .. Len(cLast.out.val.Elements) :
                     cLast.out.val.Elements[ii] = Float64(0)
    /\ (cLast.op = "VariableMatrix.Constant" /\ ValidMatrix(cLast.recv))
           => /\ cLast.out.kind = "return"
              /\ cLast.out.val.type = "mat.Dense"
              /\ Len(cLast.out.val.rows) = Len(cLast.recv)
              /\ \A ii \in 1 .. Len(cLast.out.val.rows) :
                     /\ Len(cLast.out.val.rows[ii]) = Len(cLast.recv[1])
                     /\ \A jj \in 1 .. Len(cLast.out.val.rows[ii]) :
                            cLast.out.val.rows[ii][jj] = Float64(0)

\* A valid 2 x 1 matrix has answered Constant()
C22_Witness ==
    /\ cLast.op = "VariableMatrix.Constant"
    /\ ValidMatrix(cLast.recv)
    /\ Len(cLast.recv) = 2
    /\ Len(cLast.recv[1]) = 1
    /\ cLast.out.kind = "return"

\* C26: the transpose of a valid VariableVector of length n has dimensions
\* [1, n]: Transpose swaps the two entries of Dims()
C26_VectorTransposeDims ==
    (cLast.op = "VariableVector.Transpose" /\ ValidVector(cLast.recv))
        => /\ cLast.out.kind = "return"
           /\ VariableVectorDims(cLast.out.val)
                  = <<VariableVectorDims(cLast.recv)[2],
                      VariableVectorDims(cLast.recv)[1]>>

\* The matrices of the claim: Check passes and there is at least one column
TransposeCase ==
    /\ cLast.op = "VariableMatrix.Transpose"
    /\ ValidMatrix(cLast.recv)

----------------------------------------------------------------------------
(* K.LinearCoeff: a caller that holds a constant and asks for its linear   *)
(* coefficients with respect to the variable lists it supplies.            *)

\* Number of variable lists a caller supplies, and length of a list
MaxWrt == 2
MaxTargets == 2

EmptyLinearCoeffsError(e) == [name |-> "EmptyLinearCoeffsError", Expression |-> e]

\* A LinearCoeff that only rejects a call without a list
KLinearCoeffAcceptsEmptyList(k, wrt) ==
    IF Len(wrt) = 0
    THEN Panic(EmptyLinearCoeffsError(K(k)))
    ELSE ZerosVector(Len(wrt[1]))

\* K.LinearCoeff(wrt ...[]Variable): the first list supplied is the list of
\* target variables
KLinearCoeff(k, wrt) ==
    LET wrtVars == IF Len(wrt) > 0 THEN wrt[1] ELSE <<>>
    IN  IF Len(wrtVars) = 0
        THEN Panic(EmptyLinearCoeffsError(K(k)))
        ELSE ZerosVector(Len(wrtVars))

WrtLists == SeqsUpTo({X1, X2}, MaxTargets)

WrtArgs == SeqsUpTo(WrtLists, MaxWrt)

InitLinearCoeff ==
    /\ c \in Consts
    /\ last = NoCall
    /\ IdlePoly
    /\ IdleDims
    /\ IdleContainers

\* c.LinearCoeff(wrt...)
CallKLinearCoeff ==
    /\ last.op = "none"
    /\ \E wrt \in WrtArgs :
        /\ last' = Call("K.LinearCoeff", K(c), wrt, KLinearCoeff(c, wrt))
        /\ UNCHANGED <<polyVars, c, dimVars, containerVars>>

NextLinearCoeff == CallKLinearCoeff

SpecLinearCoeff == InitLinearCoeff /\ [][NextLinearCoeff]_vars

\* No target variables: no list supplied, or the list supplied is empty
NoTargets(wrt) == Len(wrt) = 0 \/ Len(wrt[1]) = 0

\* C23: K.LinearCoeff aborts with the empty-linear-coefficients error
\* exactly when no target variable list is supplied or the supplied list is
\* empty; otherwise it returns the vector of zeros with one entry per target
\* variable
C23_LinearCoeff ==
    last.op = "K.LinearCoeff"
        => /\ (last.out.kind = "panic") <=> NoTargets(last.arg)
           /\ NoTargets(last.arg)
                  => last.out = Panic(EmptyLinearCoeffsError(last.recv))
           /\ ~NoTargets(last.arg)
                  => /\ last.out.kind = "return"
                     /\ last.out.val.type = "mat.VecDense"
                     /\ Len(last.out.val.Elements) = Len(last.arg[1])
                     /\ \A ii \in 1 .. Len(last.out.val.Elements) :
                            last.out.val.Elements[ii] = Float64(0)

\* Both sides of the equivalence: a call with a list of two targets has
\* returned
C23_Witness ==
    /\ last.op = "K.LinearCoeff"
    /\ Len(last.arg) = 1
    /\ Len(last.arg[1]) = 2
    /\ last.out.kind = "return"

\* The error names the operation and holds the offending value
CarriesOperationAndValue(err, op, arg) ==
    /\ "Input" \in DOMAIN err
    /\ err.Input = arg
    /\ \/ "FunctionName" \in DOMAIN err /\ err.FunctionName = op
       \/ "op" \in DOMAIN err
              /\ (err.op = op \/ op = "Polynomial." \o err.op)

\* A call of Plus, Multiply or Comparison on a valid receiver with a string
\* as right operand
UnsupportedOperandCall(call) ==
    /\ call.op \in {"K.Plus", "K.Multiply", "K.Comparison",
                    "Polynomial.Plus", "Polynomial.Multiply",
                    "Polynomial.Comparison",
                    "VariableVector.Plus", "VariableVector.Multiply",
                    "VariableVector.Comparison",
                    "VariableMatrix.Plus", "VariableMatrix.Multiply",
                    "VariableMatrix.Comparison"}
    /\ call.arg = StringOperand

\* C24: Plus, Multiply and Comparison of K, Polynomial, VariableVector and
\* VariableMatrix, given a right operand of a type the algebra does not
\* promote (a string), return nothing and abort with an error that carries
\* the operation name and the offending value
C24_UnsupportedOperand ==
    /\ (UnsupportedOperandCall(last)
            /\ (last.op \in {"K.Plus", "K.Multiply", "K.Comparison"}
                    \/ ValidPolynomial(last.recv)))
           => /\ last.out.kind = "panic"
              /\ CarriesOperationAndValue(last.out.err, last.op, last.arg)
    /\ (UnsupportedOperandCall(cLast)
            /\ (cLast.op \in {"VariableVector.Plus", "VariableVector.Multiply",
                              "VariableVector.Comparison"}
                    => ValidVector(cLast.recv))
            /\ (cLast.op \in {"VariableMatrix.Plus", "VariableMatrix.Multiply",
                              "VariableMatrix.Comparison"}
                    => ValidMatrix(cLast.recv)))
           => /\ cLast.out.kind = "panic"
              /\ CarriesOperationAndValue(cLast.out.err, cLast.op, cLast.arg)

----------------------------------------------------------------------------
(* The comparisons that build vector and matrix constraints: a caller that *)
(* holds a constant, a vector or a matrix and compares it once.            *)

\* The matrices a comparing caller holds: empty, ragged, with an element
\* that fails Check, and valid ones of several shapes
ComparisonMatrices ==
    {<<>>, <<<<>>>>, <<<<X1>>, <<X1, X1>>>>, <<<<BadVariable>>>>,
     <<<<X1>>>>, <<<<X1, X1>>>>, <<<<X1>>, <<X1>>>>, <<<<X1, X1>>, <<X1, X1>>>>}

InitComparison ==
    /\ \/ c \in Consts /\ vm = <<>> /\ vv = [Elements |-> <<>>]
       \/ c = 0 /\ vm = <<>> /\ vv \in InitVectors
       \/ c = 0 /\ vm \in ComparisonMatrices /\ vv = [Elements |-> <<>>]
    /\ cLast = NoCCall
    /\ last = NoCall
    /\ IdlePoly
    /\ IdleDims

NoComparisonCall == cLast.op = "none" /\ last.op = "none"

\* c.Comparison(e, sense) as the caller's only call
CompareK == NoComparisonCall /\ CallKComparison

\* vv.Comparison(e, sense) as the caller's only call
CompareVariableVector == NoComparisonCall /\ CallVariableVectorComparison

\* vm.Comparison(e, sense) as the caller's only call
CompareVariableMatrix == NoComparisonCall /\ CallVariableMatrixComparison

NextComparison ==
    \/ CompareK
    \/ CompareVariableVector
    \/ CompareVariableMatrix

SpecComparison == InitComparison /\ [][NextComparison]_vars

\* The dimensions of one side of a vector or matrix constraint
SideDims(x) ==
    IF "rows" \in DOMAIN x
    THEN <<Len(x.rows), IF Len(x.rows) = 0 THEN 0 ELSE Len(x.rows[1])>>
    ELSE <<Len(x.Elements), 1>>

\* The constraint has two sides of the same dimensions
SameShape(con) == SideDims(con.LeftHandSide) = SideDims(con.RightHandSide)

ReturnsShapedConstraint(call) ==
    /\ call.out.kind = "return"
    /\ call.out.val.type \in {"VectorConstraint", "MatrixConstraint"}

\* C28: every VectorConstraint or MatrixConstraint returned by K.Comparison,
\* VariableVector.Comparison or VariableMatrix.Comparison has two sides of
\* identical dimensions; where a constant is compared with a vector or a
\* matrix, the constant's side has the other side's shape and every entry
\* is the constant
C28_ConstraintSidesAgree ==
    /\ (last.op = "K.Comparison" /\ ReturnsShapedConstraint(last))
           => /\ SameShape(last.out.val)
              /\ \A ii \in 1 .. Len(last.out.val.LeftHandSide.Elements) :
                     last.out.val.LeftHandSide.Elements[ii] = last.recv
    /\ (cLast.op = "VariableVector.Comparison" /\ ReturnsShapedConstraint(cLast))
           => SameShape(cLast.out.val)
    /\ (cLast.op = "VariableMatrix.Comparison" /\ ReturnsShapedConstraint(cLast))
           => /\ SameShape(cLast.out.val)
              /\ cLast.arg.type = "K"
                     => \A ii \in 1 .. Len(cLast.out.val.RightHandSide.rows) :
                            \A jj \in 1 .. Len(cLast.out.val.RightHandSide.rows[ii]) :
                                cLast.out.val.RightHandSide.rows[ii][jj] = cLast.arg

\* A constant has been compared with a vector of two variables
C28_Witness ==
    /\ last.op = "K.Comparison"
    /\ ReturnsShapedConstraint(last)
    /\ last.arg.type = "VariableVector"
    /\ Len(last.arg.Elements) = 2

----------------------------------------------------------------------------
(* Stacking: HStack, VStack and ConcretizeExpression.  A scalar expression *)
(* is an opaque entry that remembers the input and the position it comes   *)
(* from; a vector or matrix expression holds such entries.                 *)

\* Number of inputs of a stacking call, and largest row or column count
MaxStack == 3
StackDim == 2

\* The scalar expression at (i, j) of the t-th input
Entry(t, i, j) == [type |-> "Scalar", of |-> t, row |-> i, col |-> j]

VectorExpr(es) == [type |-> "Vector", Elements |-> es]

MatrixExpr(rows) == [type |-> "Matrix", rows |-> rows]

\* Dims() of an expression
ExprDims(e) ==
    IF e.type = "Scalar" THEN <<1, 1>>
    ELSE IF e.type = "Vector" THEN <<Len(e.Elements), 1>>
    ELSE <<Len(e.rows), Len(e.rows[1])>>

\* At(ii, jj) of an expression, ii and jj counted from 0 and in range
ExprAt(e, ii, jj) ==
    IF e.type = "Scalar" THEN e
    ELSE IF e.type = "Vector" THEN e.Elements[ii + 1]
    ELSE e.rows[ii + 1][jj + 1]

\* ConcretizeVectorExpression: the vector expression of the entries
ConcretizeVectorExpression(sl) == VectorExpr(sl)

\* ConcretizeMatrixExpression: the matrix expression of the entries
ConcretizeMatrixExpression(rows) == MatrixExpr(rows)

\* What a caller passes to ConcretizeExpression
ScalarSlice(sl) == [type |-> "[]ScalarExpression", slice |-> sl]

ScalarSliceOfSlices(rows) == [type |-> "[][]ScalarExpression", slice |-> rows]

\* A conversion that keeps every array as a vector or matrix expression
ConcretizeExpressionKeepsShape(e) ==
    IF e.type = "[]ScalarExpression"
    THEN Return(ConcretizeVectorExpression(e.slice))
    ELSE IF e.type = "[][]ScalarExpression"
    THEN Return(ConcretizeMatrixExpression(e.slice))
    ELSE Panic(UnsupportedInputError("ConcretizeExpression", e))

\* ConcretizeExpression
ConcretizeExpression(e) ==
    IF e.type = "[]ScalarExpression"
    THEN LET concreteVectorE == ConcretizeVectorExpression(e.slice)
         IN  IF ExprDims(concreteVectorE)[1] = 1
             THEN Return(ExprAt(concreteVectorE, 0, 0))
             ELSE Return(concreteVectorE)
    ELSE IF e.type = "[][]ScalarExpression"
    THEN LET concreteMatrixE == ConcretizeMatrixExpression(e.slice)
             dims == ExprDims(concreteMatrixE)
         IN  IF dims[1] = 1 /\ dims[2] = 1
             THEN Return(ExprAt(concreteMatrixE, 0, 0))
             ELSE IF dims[2] = 1
             THEN Return(ConcretizeVectorExpression(
                      [ii \in 1 .. dims[1] |-> ExprAt(concreteMatrixE, ii - 1, 0)]))
             ELSE Return(concreteMatrixE)
    ELSE Panic(UnsupportedInputError("ConcretizeExpression", e))

\* The first index ii >= 1 (counted from 0) whose entry differs from the
\* entry before it, 0 when there is none
FirstAdjacentMismatch(ns) ==
    LET bad == {ii \in 1 .. Len(ns) - 1 : ns[ii + 1] # ns[ii]}
    IN  IF bad = {} THEN 0 ELSE CHOOSE ii \in bad : \A jj \in bad : ii <= jj

\* A check that compares every input with the first one
CheckDimensionsInHStackAgainstFirst(sliceToStack) ==
    LET nRowsInSlice == [ii \in 1 .. Len(sliceToStack) |-> ExprDims(sliceToStack[ii])[1]]
        ii == FirstAdjacentMismatch(nRowsInSlice)
    IN  IF ii # 0
        THEN DimensionError("HStack", sliceToStack[1], sliceToStack[ii + 1])
        ELSE Nil

\* smErrors.CheckDimensionsInHStack
CheckDimensionsInHStack(sliceToStack) ==
    LET nRowsInSlice == [ii \in 1 .. Len(sliceToStack) |-> ExprDims(sliceToStack[ii])[1]]
        ii == FirstAdjacentMismatch(nRowsInSlice)
    IN  IF ii # 0
        THEN DimensionError("HStack", sliceToStack[ii], sliceToStack[ii + 1])
        ELSE Nil

\* smErrors.CheckDimensionsInVStack
CheckDimensionsInVStack(sliceToStack) ==
    LET nColsInSlice == [ii \in 1 .. Len(sliceToStack) |-> ExprDims(sliceToStack[ii])[2]]
        ii == FirstAdjacentMismatch(nColsInSlice)
    IN  IF ii # 0
        THEN DimensionError("VStack", sliceToStack[ii], sliceToStack[ii + 1])
        ELSE Nil

NoInputsError(fn) ==
    [name |-> "There must be at least one expression in the input",
     FunctionName |-> fn, received |-> 0]

\* The rows of the expression, each as a slice of its entries
RowsOf(e) ==
    [rowIndex \in 1 .. ExprDims(e)[1] |->
        [colIndex \in 1 .. ExprDims(e)[2] |-> ExprAt(e, rowIndex - 1, colIndex - 1)]]

\* VStack
VStack(eIn) ==
    IF Len(eIn) = 0 THEN Panic(NoInputsError("VStack"))
    ELSE LET err == CheckDimensionsInVStack(eIn)
         IN  IF ~IsNil(err) THEN Panic(err)
             ELSE LET result == Flatten([stackIndexII \in 1 .. Len(eIn) |->
                                             RowsOf(eIn[stackIndexII])])
                  IN  ConcretizeExpression(ScalarSliceOfSlices(result))

\* A horizontal stack that puts the inputs one below the other
HStackStacksRows(eIn) == VStack(eIn)

\* HStack
HStack(eIn) ==
    IF Len(eIn) = 0 THEN Panic(NoInputsError("HStack"))
    ELSE LET err == CheckDimensionsInHStack(eIn)
         IN  IF ~IsNil(err) THEN Panic(err)
             ELSE LET result ==
                          [rowIndex \in 1 .. ExprDims(eIn[1])[1] |->
                              Flatten([stackIndexII \in 1 .. Len(eIn) |->
                                          RowsOf(eIn[stackIndexII])[rowIndex]])]
                  IN  ConcretizeExpression(ScalarSliceOfSlices(result))

\* The t-th input of a call: a scalar, a vector or a matrix expression
StackShapes ==
    {[type |-> "Scalar", r |-> 1, c |-> 1]}
        \cup {[type |-> "Vector", r |-> r, c |-> 1] : r \in 1 .. StackDim}
        \cup {[type |-> "Matrix", r |-> r, c |-> cc] : r \in 1 .. StackDim, cc \in 1 .. StackDim}

StackInput(t, sh) ==
    IF sh.type = "Scalar" THEN Entry(t, 1, 1)
    ELSE IF sh.type = "Vector" THEN VectorExpr([ii \in 1 .. sh.r |-> Entry(t, ii, 1)])
    ELSE MatrixExpr([ii \in 1 .. sh.r |-> [jj \in 1 .. sh.c |-> Entry(t, ii, jj)]])

\* The inputs of a call, one of each of the shapes
StackInputs(shapes) == [t \in 1 .. Len(shapes) |-> StackInput(t, shapes[t])]

\* Arrays of scalar expressions with at least one entry, and values that
\* are no arrays
ConcretizeArgs ==
    {ScalarSlice([ii \in 1 .. n |-> Entry(0, ii, 1)]) : n \in 1 .. StackDim}
        \cup {ScalarSliceOfSlices([ii \in 1 .. r |-> [jj \in 1 .. cc |-> Entry(0, ii, jj)]]) :
                 r \in 1 .. StackDim, cc \in 1 .. StackDim}
        \cup {StringOperand, K(0), Entry(0, 1, 1)}

InitStack ==
    /\ last = NoCall
    /\ IdlePoly
    /\ IdleK
    /\ IdleDims
    /\ IdleContainers

\* HStack(eIn...)
CallHStack ==
    /\ last.op = "none"
    /\ \E k \in 0 .. MaxStack :
           \E shapes \in [1 .. k -> StackShapes] :
               /\ last' = Call("HStack", Nil, StackInputs(shapes),
                               HStack(StackInputs(shapes)))
               /\ UNCHANGED <<polyVars, c, dimVars, containerVars>>

\* VStack(eIn...)
CallVStack ==
    /\ last.op = "none"
    /\ \E k \in 0 .. MaxStack :
           \E shapes \in [1 .. k -> StackShapes] :
               /\ last' = Call("VStack", Nil, StackInputs(shapes),
                               VStack(StackInputs(shapes)))
               /\ UNCHANGED <<polyVars, c, dimVars, containerVars>>

\* ConcretizeExpression(e)
CallConcretizeExpression ==
    /\ last.op = "none"
    /\ \E e \in ConcretizeArgs :
        /\ last' = Call("ConcretizeExpression", Nil, e, ConcretizeExpression(e))
        /\ UNCHANGED <<polyVars, c, dimVars, containerVars>>

NextStack ==
    \/ CallHStack
    \/ CallVStack
    \/ CallConcretizeExpression

SpecStack == InitStack /\ [][NextStack]_vars

\* Two of the inputs differ in the entry d of their dimensions
InputsDisagree(eIn, d) ==
    \E s, t \in 1 .. Len(eIn) : ExprDims(eIn[s])[d] # ExprDims(eIn[t])[d]

\* The first adjacent pair of inputs that differ in the entry d
FirstDisagreeingPair(eIn, d) ==
    LET ii == CHOOSE ii \in 1 .. Len(eIn) - 1 :
                  /\ ExprDims(eIn[ii])[d] # ExprDims(eIn[ii + 1])[d]
                  /\ \A jj \in 1 .. ii - 1 :
                         ExprDims(eIn[jj])[d] = ExprDims(eIn[jj + 1])[d]
    IN  <<eIn[ii], eIn[ii + 1]>>

StackAborts(call, fn, d) ==
    /\ (call.out.kind = "panic" /\ call.out.err.name = "DimensionError")
           <=> InputsDisagree(call.arg, d)
    /\ InputsDisagree(call.arg, d)
           => call.out = Panic(DimensionError(fn,
                                   FirstDisagreeingPair(call.arg, d)[1],
                                   FirstDisagreeingPair(call.arg, d)[2]))
    /\ Len(call.arg) = 0 => call.out.kind = "panic"

\* C25: HStack aborts with a DimensionError of operation "HStack" exactly
\* when two inputs differ in row count, VStack with one of operation
\* "VStack" exactly when two inputs differ in column count; Arg1 and Arg2
\* are the first adjacent pair that disagrees; both abort without inputs
C25_StackDimensionError ==
    /\ last.op = "HStack" => StackAborts(last, "HStack", 1)
    /\ last.op = "VStack" => StackAborts(last, "VStack", 2)

\* Three inputs of which only the last two disagree have been stacked
C25_Witness ==
    /\ last.op = "HStack"
    /\ Len(last.arg) = 3
    /\ ExprDims(last.arg[1])[1] = ExprDims(last.arg[2])[1]
    /\ ExprDims(last.arg[2])[1] # ExprDims(last.arg[3])[1]
    /\ last.out.kind = "panic"

\* The sum of entry d of the dimensions of the first n inputs
RECURSIVE DimSum(_, _, _)
DimSum(eIn, d, n) ==
    IF n = 0 THEN 0 ELSE DimSum(eIn, d, n - 1) + ExprDims(eIn[n])[d]

\* At least one input, and all inputs agree in entry d of their dimensions
InputsAgree(eIn, d) == Len(eIn) > 0 /\ ~InputsDisagree(eIn, d)

\* The result holds the inputs side by side
StackedSideBySide(eIn, out) ==
    /\ out.kind = "return"
    /\ ExprDims(out.val) = <<ExprDims(eIn[1])[1], DimSum(eIn, 2, Len(eIn))>>
    /\ \A t \in 1 .. Len(eIn) :
           \A ii \in 0 .. ExprDims(eIn[t])[1] - 1 :
               \A jj \in 0 .. ExprDims(eIn[t])[2] - 1 :
                   ExprAt(out.val, ii, DimSum(eIn, 2, t - 1) + jj)
                       = ExprAt(eIn[t], ii, jj)

\* The result holds the inputs one below the other
StackedOneBelowTheOther(eIn, out) ==
    /\ out.kind = "return"
    /\ ExprDims(out.val) = <<DimSum(eIn, 1, Len(eIn)), ExprDims(eIn[1])[2]>>
    /\ \A t \in 1 .. Len(eIn) :
           \A ii \in 0 .. ExprDims(eIn[t])[1] - 1 :
               \A jj \in 0 .. ExprDims(eIn[t])[2] - 1 :
                   ExprAt(out.val, DimSum(eIn, 1, t - 1) + ii, jj)
                       = ExprAt(eIn[t], ii, jj)

\* C29: for inputs that all have r rows HStack returns an expression of r
\* rows and as many columns as the inputs have together, whose entry
\* (i, c_1 + ... + c_(t-1) + j) is e_t.At(i, j); for inputs that all have c
\* columns VStack returns an expression of c columns whose rows are the
\* rows of the inputs in input order
C29_StackLayout ==
    /\ (last.op = "HStack" /\ InputsAgree(last.arg, 1))
           => StackedSideBySide(last.arg, last.out)
    /\ (last.op = "VStack" /\ InputsAgree(last.arg, 2))
           => StackedOneBelowTheOther(last.arg, last.out)

\* A 2 x 1 input and a 2 x 2 input have been stacked side by side
C29_Witness ==
    /\ last.op = "HStack"
    /\ Len(last.arg) = 2
    /\ ExprDims(last.arg[1]) = <<2, 1>>
    /\ ExprDims(last.arg[2]) = <<2, 2>>
    /\ last.out.kind = "return"

\* The array passed to ConcretizeExpression, as rows of entries
ArrayRows(e) ==
    IF e.type = "[]ScalarExpression"
    THEN [ii \in 1 .. Len(e.slice) |-> <<e.slice[ii]>>]
    ELSE e.slice

IsArray(e) == e.type \in {"[]ScalarExpression", "[][]ScalarExpression"}

\* C30: ConcretizeExpression turns a 1 x 1 array of scalar expressions into
\* its entry, an n x 1 array with n > 1 into a vector expression of length
\* n, an array of more than one column into a matrix expression of the same
\* dimensions, and aborts with an unsupported-input error on a value that
\* is no such array
C30_ConcretizeExpression ==
    last.op = "ConcretizeExpression"
        => IF ~IsArray(last.arg)
           THEN last.out = Panic(UnsupportedInputError("ConcretizeExpression", last.arg))
           ELSE LET rows == ArrayRows(last.arg)
                    n == Len(rows)
                    m == Len(rows[1])
                IN  /\ last.out.kind = "return"
                    /\ (n = 1 /\ m = 1) => last.out.val = rows[1][1]
                    /\ (n > 1 /\ m = 1)
                           => /\ last.out.val.type = "Vector"
                              /\ Len(last.out.val.Elements) = n
                              /\ \A ii \in 1 .. n :
                                     last.out.val.Elements[ii] = rows[ii][1]
                    /\ m > 1
                           => /\ last.out.val.type = "Matrix"
                              /\ last.out.val.rows = rows

\* An array of two rows and one column has been converted
C30_Witness ==
    /\ last.op = "ConcretizeExpression"
    /\ last.arg.type = "[][]ScalarExpression"
    /\ Len(last.arg.slice) = 2
    /\ Len(last.arg.slice[1]) = 1
    /\ last.out.kind = "return"

====
